---- MODULE Spec2Model ----
(***************************************************************************)
(* Fold-and-cut playground (studies/origami/playground/js): the geometry   *)
(* kernel (utils.js), the ring builder, the crease extractor and the       *)
(* engine run (engine.js), as a state machine.                             *)
(*                                                                         *)
(* Numbers.  The code computes in IEEE doubles; the model computes in      *)
(* exact integers and rationals.  Shape coordinates are even integers      *)
(* (pixels snapped to a grid), so that the halvings of polygonArea and of  *)
(* the bounding-box centre are exact.  Skeleton coordinates are integers   *)
(* in units of a quarter of the valley quantisation step (1e-2).           *)
(* A rational point is a record [x, y, d] standing for (x/d, y/d), d > 0.  *)
(* The code's epsilons (1e-9, 1e-12, 1e-10, 1e-6, 1e-7) are far below the  *)
(* smallest non-zero quantity these inputs produce, so a comparison with   *)
(* an epsilon is a comparison with 0.                                      *)
(*                                                                         *)
(* Indices are 1-based: the code's (i + 1) % n is Next1(i, n).             *)
(***************************************************************************)
EXTENDS Integers, Sequences, FiniteSets, TLC

VARIABLES
    project,      \* App.project: [shapes |-> sequence of shapes, settings |-> ...]
    selectedShapeId, \* App.selectedShapeId: a shape id or NULL
    viewport,     \* SVGView.viewport: [w |-> width]
    solver,       \* what SkeletonBuilder.buildFromPolygon answers (a black box):
                  \* <<>> for null, <<skeleton>> otherwise
    runCall,      \* the arguments of the last FoldAndCutEngine.run
    built,        \* what buildRingsFromProject did in the last run
    solverCalls,  \* SkeletonBuilder.buildFromPolygon calls made by the last run
    outcome,      \* what the last run returned or threw
    service,      \* StraightSkeletonService: _mod, _initPromise and the
                  \* progress of the one initialization
    calls,        \* the init() and run() calls made so far, each with what
                  \* its await of load() gave
    app,          \* App: result, the error and status texts, the history
    timeline,     \* the timeline card of timeline-origami.js: <<>> on a page
                  \* without one
    probe         \* a kernel function's arguments and value

vars ==
    <<project, selectedShapeId, viewport, solver, timeline, runCall, built, solverCalls,
      outcome, service, calls, app, probe>>

\* ------------------------------------------------------------------ bounds

MaxShapes == 3      \* shapes in a scene
MaxFaces == 2       \* faces in a solver output

\* ----------------------------------------------------------------- helpers

NULL == 0           \* null / no shape id (shape ids are 1, 2, ...)

Next1(i, n) == (i % n) + 1

Abs(v) == IF v < 0 THEN -v ELSE v

Min2(a, b) == IF a < b THEN a ELSE b

Max2(a, b) == IF a > b THEN a ELSE b

RECURSIVE SumSeq(_)
SumSeq(s) == IF s = <<>> THEN 0 ELSE Head(s) + SumSeq(Tail(s))

RECURSIVE MinSeq(_)
MinSeq(s) == IF Len(s) = 1 THEN s[1] ELSE Min2(s[1], MinSeq(Tail(s)))

RECURSIVE MaxSeq(_)
MaxSeq(s) == IF Len(s) = 1 THEN s[1] ELSE Max2(s[1], MaxSeq(Tail(s)))

RECURSIVE Gcd(_, _)
Gcd(a, b) == IF b = 0 THEN a ELSE Gcd(b, a % b)

Reverse(s) == [i \in 1..Len(s) |-> s[Len(s) + 1 - i]]

\* ------------------------------------------------- geometry kernel (utils.js)

pt(x, y) == [x |-> x, y |-> y]

\* a rational point in lowest terms with a positive denominator
qpt(xn, yn, d) ==
    LET s == IF d < 0 THEN -1 ELSE 1
        g == Gcd(Gcd(Abs(xn), Abs(yn)), Abs(d))
    IN [x |-> (s * xn) \div g, y |-> (s * yn) \div g, d |-> (s * d) \div g]

\* an integer point as a rational point
asQ(p) == [x |-> p.x, y |-> p.y, d |-> 1]

sub(a, b) == pt(a.x - b.x, a.y - b.y)

dot(a, b) == a.x * b.x + a.y * b.y

cross(a, b) == a.x * b.y - a.y * b.x

len2(a) == a.x * a.x + a.y * a.y

bboxOfPoints(points) ==
    IF points = <<>> THEN [minX |-> 0, minY |-> 0, maxX |-> 0, maxY |-> 0]
    ELSE LET xs == [i \in 1..Len(points) |-> points[i].x]
             ys == [i \in 1..Len(points) |-> points[i].y]
         IN [minX |-> MinSeq(xs), minY |-> MinSeq(ys),
             maxX |-> MaxSeq(xs), maxY |-> MaxSeq(ys)]

\* the shoelace term of edge i: p.x * q.y - q.x * p.y
ShoelaceTerm(points, i) ==
    LET p == points[i]
        q == points[Next1(i, Len(points))]
    IN p.x * q.y - q.x * p.y

polygonArea(points) ==
    SumSeq([i \in 1..Len(points) |-> ShoelaceTerm(points, i)]) \div 2

polygonCentroid(points) ==
    LET A == polygonArea(points)
        n == Len(points)
        b == bboxOfPoints(points)
        cx == SumSeq([i \in 1..n |->
                 (points[i].x + points[Next1(i, n)].x) * ShoelaceTerm(points, i)])
        cy == SumSeq([i \in 1..n |->
                 (points[i].y + points[Next1(i, n)].y) * ShoelaceTerm(points, i)])
    IN IF A = 0
       THEN qpt(b.minX + b.maxX, b.minY + b.maxY, 2)
       ELSE qpt(cx, cy, 6 * A)

ensureCCW(points) ==
    IF polygonArea(points) < 0 THEN Reverse(points) ELSE points

\* ensureCW, had the reversal been left out
ensureCW_NoReverse(points) == points

ensureCW(points) ==
    IF polygonArea(points) > 0 THEN Reverse(points) ELSE points

\* one step of the ray cast: does the horizontal ray from p cross edge (a, b)?
\*   ((a.y > p.y) !== (b.y > p.y)) &&
\*   (p.x < (b.x - a.x) * (p.y - a.y) / (b.y - a.y) + a.x)
\* with p = (p.x/p.d, p.y/p.d), both sides multiplied by p.d * (b.y - a.y)
RayCrosses(p, a, b) ==
    /\ (a.y * p.d > p.y) # (b.y * p.d > p.y)
    /\ LET dy == b.y - a.y
           lhs == p.x * dy
           rhs == (b.x - a.x) * (p.y - a.y * p.d) + a.x * p.d * dy
       IN IF dy > 0 THEN lhs < rhs ELSE lhs > rhs

\* pointInPolygon, had it tested the ray against the edges' lines without
\* the test that the edge passes the height of p
pointInPolygon_LinesNotEdges(p, poly) ==
    LET n == Len(poly)
        hits == {i \in 1..n :
                    LET a == poly[i]
                        b == poly[IF i = 1 THEN n ELSE i - 1]
                        dy == b.y - a.y
                        lhs == p.x * dy
                        rhs == (b.x - a.x) * (p.y - a.y * p.d) + a.x * p.d * dy
                    IN dy # 0 /\ (IF dy > 0 THEN lhs < rhs ELSE lhs > rhs)}
    IN Cardinality(hits) % 2 = 1

\* p is a rational point, poly a sequence of integer points
pointInPolygon(p, poly) ==
    LET n == Len(poly)
        hits == {i \in 1..n :
                    RayCrosses(p, poly[i], poly[IF i = 1 THEN n ELSE i - 1])}
    IN Cardinality(hits) % 2 = 1

orient(a, b, c) == cross(sub(b, a), sub(c, a))

onSegment(a, b, p) ==
    /\ Min2(a.x, b.x) <= p.x /\ p.x <= Max2(a.x, b.x)
    /\ Min2(a.y, b.y) <= p.y /\ p.y <= Max2(a.y, b.y)
    /\ orient(a, b, p) = 0

\* segmentsIntersect, had it tested for proper crossings only
segmentsIntersect_ProperOnly(a, b, c, d) ==
    LET o1 == orient(a, b, c)
        o2 == orient(a, b, d)
        o3 == orient(c, d, a)
        o4 == orient(c, d, b)
    IN /\ (o1 > 0 /\ o2 < 0) \/ (o1 < 0 /\ o2 > 0)
       /\ (o3 > 0 /\ o4 < 0) \/ (o3 < 0 /\ o4 > 0)

segmentsIntersect(a, b, c, d) ==
    LET o1 == orient(a, b, c)
        o2 == orient(a, b, d)
        o3 == orient(c, d, a)
        o4 == orient(c, d, b)
    IN \/ /\ (o1 > 0 /\ o2 < 0) \/ (o1 < 0 /\ o2 > 0)
          /\ (o3 > 0 /\ o4 < 0) \/ (o3 < 0 /\ o4 > 0)
       \/ (o1 = 0 /\ onSegment(a, b, c))
       \/ (o2 = 0 /\ onSegment(a, b, d))
       \/ (o3 = 0 /\ onSegment(c, d, a))
       \/ (o4 = 0 /\ onSegment(c, d, b))

\* isSimplePolygon, had it tested only for proper crossings
isSimplePolygon_CrossingsOnly(points) ==
    LET n == Len(points)
    IN /\ n >= 3
       /\ \A i \in 1..n : \A j \in (i + 1)..n :
             (Next1(i, n) # j /\ i # Next1(j, n)) =>
                LET o1 == orient(points[i], points[Next1(i, n)], points[j])
                    o2 == orient(points[i], points[Next1(i, n)], points[Next1(j, n)])
                    o3 == orient(points[j], points[Next1(j, n)], points[i])
                    o4 == orient(points[j], points[Next1(j, n)], points[Next1(i, n)])
                IN ~ (/\ (o1 > 0 /\ o2 < 0) \/ (o1 < 0 /\ o2 > 0)
                      /\ (o3 > 0 /\ o4 < 0) \/ (o3 < 0 /\ o4 > 0))

\* the edge pairs (i, j), i < j, that isSimplePolygon tests: not adjacent
TestedEdgePair(i, j, n) == Next1(i, n) # j /\ i # Next1(j, n)

isSimplePolygon(points) ==
    LET n == Len(points)
    IN /\ n >= 3
       /\ \A i \in 1..n : \A j \in (i + 1)..n :
             TestedEdgePair(i, j, n) =>
                ~segmentsIntersect(points[i], points[Next1(i, n)],
                                   points[j], points[Next1(j, n)])

\* ------------------------------------------------------- shapes (models.js)

\* new PolylineShape(points, closed), with the id the caller then assigns
PolylineShape(id, points, closed) ==
    [id |-> id,
     type |-> IF closed THEN "polygon" ELSE "polyline",
     closed |-> closed,
     points |-> points]

\* Project.getShapeById: the first shape with that id, or null.  The result
\* is a sequence of at most one shape, <<>> standing for null.
getShapeById(proj, id) ==
    LET at == {i \in 1..Len(proj.shapes) : proj.shapes[i].id = id}
    IN IF at = {} THEN <<>>
       ELSE <<proj.shapes[CHOOSE i \in at : \A j \in at : i <= j]>>

\* --------------------------------------------------- ring builder (engine.js)

\* the loop of ringFromShape that drops a point equal to the one kept before it
RECURSIVE DropConsecutiveDuplicates(_, _)
DropConsecutiveDuplicates(pts, clean) ==
    IF pts = <<>> THEN clean
    ELSE LET p == Head(pts)
             keep == \/ clean = <<>>
                     \/ clean[Len(clean)].x # p.x
                     \/ clean[Len(clean)].y # p.y
         IN DropConsecutiveDuplicates(Tail(pts),
                                      IF keep THEN Append(clean, p) ELSE clean)

\* ringFromShape, had it not tested the cleaned ring for simplicity
ringFromShape_NoSimplicityTest(shape) ==
    LET pts == shape.points
        clean == DropConsecutiveDuplicates(pts, <<>>)
    IN IF Len(pts) < 3 THEN [error |-> "DegenerateRing", ring |-> <<>>]
       ELSE IF Len(clean) < 3 THEN [error |-> "DegenerateRing", ring |-> <<>>]
       ELSE [error |-> "none", ring |-> clean]

\* the id of a shape that the message of an error of ringFromShape carries:
\* both messages are string literals without a placeholder
ShapeNamedBy(error) == NULL

\* ringFromShape: the cleaned ring, or the error it throws
\*   "DegenerateRing"       : 'A closed shape needs at least 3 points.'
\*   "SelfIntersectingRing" : 'This shape is self-intersecting. ...'
ringFromShape(shape) ==
    LET pts == shape.points
        clean == DropConsecutiveDuplicates(pts, <<>>)
    IN IF Len(pts) < 3 THEN [error |-> "DegenerateRing", ring |-> <<>>]
       ELSE IF Len(clean) < 3 THEN [error |-> "DegenerateRing", ring |-> <<>>]
       ELSE IF ~isSimplePolygon(clean)
            THEN [error |-> "SelfIntersectingRing", ring |-> <<>>]
       ELSE [error |-> "none", ring |-> clean]

\* one entry of ringInfos
RingInfo(s) ==
    LET ring == ringFromShape(s).ring
        area == polygonArea(ring)
    IN [id |-> s.id, ring |-> ring, area |-> area, absArea |-> Abs(area),
        centroid |-> polygonCentroid(ring)]

\* LargestRing, had the reduce never replaced its accumulator
LargestRing_KeepsFirst(infos, a) == a

\* ringInfos.reduce((a, b) => (b.absArea > a.absArea ? b : a), ringInfos[0])
RECURSIVE LargestRing(_, _)
LargestRing(infos, a) ==
    IF infos = <<>> THEN a
    ELSE LargestRing(Tail(infos),
                     IF Head(infos).absArea > a.absArea THEN Head(infos) ELSE a)

\* the selected shape names a closed polygon
IsClosedPolygon(sel) ==
    sel # <<>> /\ sel[1].type = "polygon" /\ sel[1].closed

\* ChooseOuter, had the selection been ignored
ChooseOuter_IgnoresSelection(ringInfos, sel) ==
    LargestRing(ringInfos, ringInfos[1])

\* the outer ring info: the selected shape's if it is a closed polygon with a
\* ring info, else the largest by absolute area
ChooseOuter(ringInfos, sel) ==
    LET selInfos == IF IsClosedPolygon(sel)
                    THEN SelectSeq(ringInfos, LAMBDA r : r.id = sel[1].id)
                    ELSE <<>>
    IN IF selInfos # <<>> THEN selInfos[1]
       ELSE LargestRing(ringInfos, ringInfos[1])

\* the other rings whose centroid is inside the outer ring
HolesOf(ringInfos, outer) ==
    SelectSeq(ringInfos, LAMBDA info :
        info.id # outer.id /\ pointInPolygon(info.centroid, outer.ring))

\* OutsidersOf, had the two branches of the centroid test been swapped
OutsidersOf_Swapped(ringInfos, outer) ==
    SelectSeq(ringInfos, LAMBDA info :
        info.id # outer.id /\ pointInPolygon(info.centroid, outer.ring))

\* the other rings whose centroid is not inside the outer ring
OutsidersOf(ringInfos, outer) ==
    SelectSeq(ringInfos, LAMBDA info :
        info.id # outer.id /\ ~pointInPolygon(info.centroid, outer.ring))

\* CloseRing, had the first vertex not been pushed at the end
CloseRing_NoPush(r) ==
    [i \in 1..Len(r) |-> <<r[i].x, r[i].y>>]

\* r.map(p => [p.x, p.y]) followed by arr.push([r[0].x, r[0].y])
CloseRing(r) ==
    [i \in 1..Len(r) |-> <<r[i].x, r[i].y>>] \o <<(<<r[1].x, r[1].y>>)>>

\* ClosedPolygons, had the filter not looked at s.closed
ClosedPolygons_AnyShape(proj) == proj.shapes

\* project.shapes.filter(s => s.type === 'polygon' && s.closed && ...)
ClosedPolygons(proj) ==
    SelectSeq(proj.shapes, LAMBDA s : s.type = "polygon" /\ s.closed)

\* what buildRingsFromProject returns or throws
BuildThrows(kind, count, outerId) ==
    [status |-> "error", error |-> kind, count |-> count,
     rings |-> <<>>, outerRing |-> <<>>, outerId |-> outerId, holeIds |-> <<>>]

NotBuilt ==
    [status |-> "none", error |-> "none", count |-> 0,
     rings |-> <<>>, outerRing |-> <<>>, outerId |-> NULL, holeIds |-> <<>>]

\* buildRingsFromProject(project, selectedId).  outerId and holeIds record the
\* locals outer.id and holes[k].id; the error carries what its message carries:
\*   "NoClosedPolygon"            : 'No closed polygon found. ...'
\*   "SelectedNotClosed"          : 'The selected shape is not closed. ...'
\*   "MultipleDisjointOuterRings" : '... Number of polygons outside the outer
\*                                   boundary: ${outsiders.length}'
buildRingsFromProject(proj, selectedId) ==
    LET closed == ClosedPolygons(proj)
        selected == IF selectedId # NULL THEN getShapeById(proj, selectedId)
                    ELSE <<>>
        failing == {i \in 1..Len(closed) : ringFromShape(closed[i]).error # "none"}
        firstFailing == CHOOSE i \in failing : \A j \in failing : i <= j
        ringInfos == [i \in 1..Len(closed) |-> RingInfo(closed[i])]
        outer == ChooseOuter(ringInfos, selected)
        holes == HolesOf(ringInfos, outer)
        outsiders == OutsidersOf(ringInfos, outer)
        outerCCW == ensureCCW(outer.ring)
        holeRings == [k \in 1..Len(holes) |-> ensureCW(holes[k].ring)]
        all == <<outerCCW>> \o holeRings
    IN IF closed = <<>> THEN BuildThrows("NoClosedPolygon", 0, NULL)
       ELSE IF selectedId # NULL /\ selected # <<>> /\ ~IsClosedPolygon(selected)
            THEN BuildThrows("SelectedNotClosed", 0, NULL)
       ELSE IF failing # {}
            THEN BuildThrows(ringFromShape(closed[firstFailing]).error, 0, NULL)
       ELSE IF Len(outsiders) > 0
            THEN BuildThrows("MultipleDisjointOuterRings", Len(outsiders), outer.id)
       ELSE [status |-> "ok", error |-> "none", count |-> 0,
             rings |-> [k \in 1..Len(all) |-> CloseRing(all[k])],
             outerRing |-> outerCCW,
             outerId |-> outer.id,
             holeIds |-> [k \in 1..Len(holes) |-> holes[k].id]]

\* ------------------------------------------- quantised edge keys (utils.js)

\* Math.round(n / d) for d > 0: the nearest integer, a half rounding up
JSRound(n, d) == (2 * n + d) \div (2 * d)

\* quantizePoint(p, q) for a rational point p: the grid point, in units
quantizePoint(p, q) ==
    pt(JSRound(p.x, p.d * q) * q, JSRound(p.y, p.d * q) * q)

\* a number as the string of its decimal digits, a string being the sequence
\* of its character codes ("-" 45, "," 44, "|" 124, "0".."9" 48..57)
RECURSIVE Digits(_)
Digits(n) == IF n < 10 THEN <<48 + n>> ELSE Append(Digits(n \div 10), 48 + (n % 10))

NumStr(n) == IF n < 0 THEN <<45>> \o Digits(-n) ELSE Digits(n)

\* s < t on strings: by the first character that differs, a proper prefix first
RECURSIVE StrLess(_, _)
StrLess(s, t) ==
    IF t = <<>> THEN FALSE
    ELSE IF s = <<>> THEN TRUE
    ELSE IF Head(s) # Head(t) THEN Head(s) < Head(t)
    ELSE StrLess(Tail(s), Tail(t))

\* keyForUndirectedEdge, had it not put the smaller of the two strings first
keyForUndirectedEdge_Directed(a, b, q) ==
    LET A == quantizePoint(a, q)
        B == quantizePoint(b, q)
    IN NumStr(A.x) \o <<44>> \o NumStr(A.y) \o <<124>> \o
       NumStr(B.x) \o <<44>> \o NumStr(B.y)

\* keyForUndirectedEdge, had the end points not been quantized
keyForUndirectedEdge_Unquantized(a, b, q) ==
    LET k1 == NumStr(a.x) \o <<47>> \o NumStr(a.d) \o <<44>> \o
              NumStr(a.y) \o <<47>> \o NumStr(a.d)
        k2 == NumStr(b.x) \o <<47>> \o NumStr(b.d) \o <<44>> \o
              NumStr(b.y) \o <<47>> \o NumStr(b.d)
    IN IF StrLess(k1, k2) THEN k1 \o <<124>> \o k2 ELSE k2 \o <<124>> \o k1

keyForUndirectedEdge(a, b, q) ==
    LET A == quantizePoint(a, q)
        B == quantizePoint(b, q)
        k1 == NumStr(A.x) \o <<44>> \o NumStr(A.y)
        k2 == NumStr(B.x) \o <<44>> \o NumStr(B.y)
    IN IF StrLess(k1, k2) THEN k1 \o <<124>> \o k2 ELSE k2 \o <<124>> \o k1

\* ------------------------------------------------ crease extractor (engine.js)

\* the valley key tolerance 1e-2: skeleton coordinates are in units of 0.0025
QuantTol == 4

\* a skeleton vertex is the array [x, y, t]
vx(v) == v[1]

vy(v) == v[2]

vt(v) == v[3]

\* the undirected edges one face traverses, in order, as <<i0, i1>>, i0 < i1
FaceEdges(poly) ==
    LET n == Len(poly)
        all == [i \in 1..n |-> <<Min2(poly[i], poly[Next1(i, n)]),
                                 Max2(poly[i], poly[Next1(i, n)])>>]
    IN SelectSeq(all, LAMBDA e : e[1] # e[2])

RECURSIVE AllFaceEdges(_)
AllFaceEdges(polygons) ==
    IF polygons = <<>> THEN <<>>
    ELSE FaceEdges(Head(polygons)) \o AllFaceEdges(Tail(polygons))

\* the keys of edgeCount in insertion order
RECURSIVE FirstOccurrences(_, _)
FirstOccurrences(edges, keys) ==
    IF edges = <<>> THEN keys
    ELSE FirstOccurrences(Tail(edges),
            IF \E k \in 1..Len(keys) : keys[k] = Head(edges)
            THEN keys ELSE Append(keys, Head(edges)))

\* edgeCount.get(key)
EdgeCount(edges, key) == Cardinality({i \in 1..Len(edges) : edges[i] = key})

\* IsInteriorEdge, had the count test been count < 1
IsInteriorEdge_CountedOnce(skeleton, edges, key) ==
    /\ EdgeCount(edges, key) >= 1
    /\ key[1] \in 1..Len(skeleton.vertices)
    /\ key[2] \in 1..Len(skeleton.vertices)
    /\ LET v0 == skeleton.vertices[key[1]]
           v1 == skeleton.vertices[key[2]]
           dx == vx(v0) - vx(v1)
           dy == vy(v0) - vy(v1)
       IN dx * dx + dy * dy > 0

\* the second loop's filter: counted twice or more, both vertices exist, and
\* the end points are not closer than the degenerate threshold
IsInteriorEdge(skeleton, edges, key) ==
    /\ EdgeCount(edges, key) >= 2
    /\ key[1] \in 1..Len(skeleton.vertices)
    /\ key[2] \in 1..Len(skeleton.vertices)
    /\ LET v0 == skeleton.vertices[key[1]]
           v1 == skeleton.vertices[key[2]]
           dx == vx(v0) - vx(v1)
           dy == vy(v0) - vy(v1)
       IN dx * dx + dy * dy > 0

extractInteriorEdgesFromSkeleton(skeleton) ==
    LET edges == AllFaceEdges(skeleton.polygons)
        keys == FirstOccurrences(edges, <<>>)
        kept == SelectSeq(keys, LAMBDA k : IsInteriorEdge(skeleton, edges, k))
    IN [k \in 1..Len(kept) |-> [i0 |-> kept[k][1], i1 |-> kept[k][2]]]

\* farthestPair: the first pair (i < j, in loop order) of largest distance
farthestPair(points) ==
    LET pairs == {pr \in (1..Len(points)) \X (1..Len(points)) : pr[1] < pr[2]}
        d2(pr) == len2(sub(points[pr[1]], points[pr[2]]))
        before(a, b) == a[1] < b[1] \/ (a[1] = b[1] /\ a[2] <= b[2])
        best == CHOOSE pr \in pairs : \A o \in pairs :
                    d2(pr) > d2(o) \/ (d2(pr) = d2(o) /\ before(pr, o))
    IN <<points[best[1]], points[best[2]]>>

\* The ray direction normalize(sub(foot, p)), with
\*   d = normalize(sub(e1, e0)),  foot = add(e0, mul(d, dot(sub(p, e0), d))),
\* up to the positive factor len2(e1 - e0) * |foot - p|: the zero vector when
\* foot = p, else a vector of the same direction.
PerpDirection(p, e0, e1) ==
    LET E == sub(e1, e0)
        L2 == len2(E)
        s == dot(sub(p, e0), E)
    IN pt((e0.x - p.x) * L2 + E.x * s, (e0.y - p.y) * L2 + E.y * s)

NoHit == [hit |-> FALSE, tn |-> 0, un |-> 0, den |-> 1]

\* lineRaySegmentIntersection(rayP, rayDir, a, b), rayDir being a positive
\* multiple of the unit direction: t = tn/den in that multiple's units,
\* u = un/den, den > 0
lineRaySegmentIntersection(rayP, rayDir, a, b) ==
    LET w == sub(b, a)
        denom == cross(rayDir, w)
        ap == sub(a, rayP)
        sg == IF denom < 0 THEN -1 ELSE 1
        tn == sg * cross(ap, w)
        un == sg * cross(ap, rayDir)
        den == sg * denom
    IN IF denom = 0 THEN NoHit
       ELSE IF tn >= 0 /\ un >= 0 /\ un <= den
            THEN [hit |-> TRUE, tn |-> tn, un |-> un, den |-> den]
       ELSE NoHit

\* hit.p = add(rayP, mul(v, t))
HitPoint(rayP, rayDir, h) ==
    qpt(rayP.x * h.den + rayDir.x * h.tn, rayP.y * h.den + rayDir.y * h.tn, h.den)

\* the inner loop over the face's segments: the first hit of smallest t among
\* those with t > 1e-6; <<>> when there is none
BestHit(p, dir, face2D) ==
    LET n == Len(face2D)
        h(i) == lineRaySegmentIntersection(p, dir, face2D[i], face2D[Next1(i, n)])
        ok == {i \in 1..n : h(i).hit /\ h(i).tn > 0}
        less(i, j) == h(i).tn * h(j).den < h(j).tn * h(i).den
        best == CHOOSE i \in ok : \A j \in ok :
                    less(i, j) \/ (~less(j, i) /\ i <= j)
    IN IF ok = {} THEN <<>> ELSE <<h(best)>>

\* VertexCandidate, had the vertex's time not been tested
VertexCandidate_NoTimeTest(v, e0, e1, face2D) ==
    LET p == pt(vx(v), vy(v))
        dir == PerpDirection(p, e0, e1)
        best == BestHit(p, dir, face2D)
    IN IF dir.x = 0 /\ dir.y = 0 THEN <<>>
       ELSE IF best = <<>> THEN <<>>
       ELSE <<[a |-> asQ(p), b |-> HitPoint(p, dir, best[1])]>>

\* the segment (p, q) one face vertex yields before deduplication: <<>> when
\* the vertex is skipped
VertexCandidate(v, e0, e1, face2D) ==
    LET p == pt(vx(v), vy(v))
        dir == PerpDirection(p, e0, e1)
        best == BestHit(p, dir, face2D)
    IN IF vt(v) <= 0 THEN <<>>
       ELSE IF dir.x = 0 /\ dir.y = 0 THEN <<>>
       ELSE IF best = <<>> THEN <<>>
       ELSE <<[a |-> asQ(p), b |-> HitPoint(p, dir, best[1])]>>

RECURSIVE Flatten(_)
Flatten(ss) == IF ss = <<>> THEN <<>> ELSE Head(ss) \o Flatten(Tail(ss))

\* the segments one face yields, in vertex order
FaceCandidates(verts, poly) ==
    LET face == [k \in 1..Len(poly) |-> verts[poly[k]]]
        boundary == SelectSeq(face, LAMBDA v : Abs(vt(v)) <= 0)
        boundaryPts == [k \in 1..Len(boundary) |->
                            pt(vx(boundary[k]), vy(boundary[k]))]
        e == farthestPair(boundaryPts)
        face2D == [k \in 1..Len(face) |-> pt(vx(face[k]), vy(face[k]))]
    IN IF Len(boundaryPts) < 2 THEN <<>>
       ELSE IF e[1] = e[2] THEN <<>>
       ELSE Flatten([k \in 1..Len(face) |->
                        VertexCandidate(face[k], e[1], e[2], face2D)])

\* all the segments that reach the seen-set test, in order
ValleyCandidates(skeleton) ==
    Flatten([f \in 1..Len(skeleton.polygons) |->
                FaceCandidates(skeleton.vertices, skeleton.polygons[f])])

ValleyKey(c) == keyForUndirectedEdge(c.a, c.b, QuantTol)

\* PushUnseen, had the seen-set test been left out
PushUnseen_NoSeenTest(cands, creases) ==
    creases \o [k \in 1..Len(cands) |->
                  [a |-> cands[k].a, b |-> cands[k].b, kind |-> "V", source |-> "perp"]]

\* if (seen.has(key)) continue; seen.add(key); creases.push(...)
RECURSIVE PushUnseen(_, _)
PushUnseen(cands, creases) ==
    IF cands = <<>> THEN creases
    ELSE LET c == Head(cands)
             seen == \E k \in 1..Len(creases) : ValleyKey(creases[k]) = ValleyKey(c)
         IN PushUnseen(Tail(cands),
               IF seen THEN creases
               ELSE Append(creases,
                       [a |-> c.a, b |-> c.b, kind |-> "V", source |-> "perp"]))

buildPerpendicularsFromFaces(skeleton) ==
    PushUnseen(ValleyCandidates(skeleton), <<>>)

\* ------------------------------------------------- engine run (engine.js)

CutLine_ThroughMinY(skeleton, w) ==
    LET allPts == [i \in 1..Len(skeleton.vertices) |->
                      pt(vx(skeleton.vertices[i]), vy(skeleton.vertices[i]))]
        bb == bboxOfPoints(allPts)
    IN [a |-> qpt(0, bb.minY, 1), b |-> qpt(w, bb.minY, 1)]

\* bboxOfPoints over the skeleton vertices, then the line y = (minY + maxY) / 2
\* from x = 0 to x = viewport.w
CutLine(skeleton, w) ==
    LET allPts == [i \in 1..Len(skeleton.vertices) |->
                      pt(vx(skeleton.vertices[i]), vy(skeleton.vertices[i]))]
        bb == bboxOfPoints(allPts)
    IN [a |-> qpt(0, bb.minY + bb.maxY, 2),
        b |-> qpt(2 * w, bb.minY + bb.maxY, 2)]

\* step 1 of run: one Mountain crease per interior edge
MountainCreases(skeleton) ==
    LET interiorEdges == extractInteriorEdgesFromSkeleton(skeleton)
    IN [k \in 1..Len(interiorEdges) |->
          LET v0 == skeleton.vertices[interiorEdges[k].i0]
              v1 == skeleton.vertices[interiorEdges[k].i1]
          IN [a |-> asQ(pt(vx(v0), vy(v0))), b |-> asQ(pt(vx(v1), vy(v1))),
              kind |-> "M", source |-> "skeleton"]]

Creases_ValleysFirst(skeleton) ==
    buildPerpendicularsFromFaces(skeleton) \o MountainCreases(skeleton)

\* creases.push(...perps) after the Mountain creases
Creases(skeleton) ==
    MountainCreases(skeleton) \o buildPerpendicularsFromFaces(skeleton)

NoSkeleton == [vertices |-> <<>>, polygons |-> <<>>]

NoBundle ==
    [rings |-> <<>>, skeleton |-> NoSkeleton, creases |-> <<>>,
     cutLine |-> [a |-> qpt(0, 0, 1), b |-> qpt(0, 0, 1)]]

NoCall == [called |-> FALSE, selectedId |-> NULL, w |-> 0]

NotRun == [kind |-> "none", error |-> "none", bundle |-> NoBundle]

Thrown(error) == [kind |-> "thrown", error |-> error, bundle |-> NoBundle]

Returned(bundle) == [kind |-> "returned", error |-> "none", bundle |-> bundle]

\* EngineRun, had it returned a bundle without skeleton when the solver gave none
EngineRun_PartialBundle(selectedId) ==
    LET b == buildRingsFromProject(project, selectedId)
    IN [runCall |-> [called |-> TRUE, selectedId |-> selectedId, w |-> viewport.w],
        built |-> b,
        solverCalls |-> IF b.status = "ok" THEN 1 ELSE 0,
        outcome |->
            IF b.status # "ok" THEN Thrown(b.error)
            ELSE IF solver = <<>>
            THEN Returned([rings |-> b.rings, skeleton |-> NoSkeleton,
                           creases |-> <<>>, cutLine |-> NoBundle.cutLine])
            ELSE Returned([rings |-> b.rings, skeleton |-> solver[1],
                           creases |-> Creases(solver[1]),
                           cutLine |-> CutLine(solver[1], viewport.w)])]

\* the body of FoldAndCutEngine.run after its await of load(), selectedId
\* being the argument the call was made with: what it leaves behind
EngineRun(selectedId) ==
    LET b == buildRingsFromProject(project, selectedId)
    IN [runCall |-> [called |-> TRUE, selectedId |-> selectedId, w |-> viewport.w],
        built |-> b,
        solverCalls |-> IF b.status = "ok" THEN 1 ELSE 0,
        outcome |->
            IF b.status # "ok" THEN Thrown(b.error)
            ELSE IF solver = <<>> THEN Thrown("SkeletonComputationFailed")
            ELSE Returned([rings |-> b.rings,
                           skeleton |-> solver[1],
                           creases |-> Creases(solver[1]),
                           cutLine |-> CutLine(solver[1], viewport.w)])]

\* the next values of the engine variables
SetEngine(e) ==
    /\ runCall' = e.runCall
    /\ built' = e.built
    /\ solverCalls' = e.solverCalls
    /\ outcome' = e.outcome

RunBody(selectedId) == SetEngine(EngineRun(selectedId))

\* FoldAndCutEngine.run(project, selectedId, viewport) once the solver module
\* is loaded, called as App.run calls it: with App.selectedShapeId and the
\* view's viewport
Run ==
    /\ RunBody(selectedShapeId)
    /\ UNCHANGED <<project, selectedShapeId, viewport, solver, timeline,
                   service, calls, app, probe>>

\* ------------------------------------- the solver service (engine.js)

MaxCalls == 3       \* calls that await the pending initialization

\* StraightSkeletonService before the first load(), and FoldAndCutEngine.ready
\*   mod          _mod: NULL, or the module instance (numbered by its import)
\*   initPromise  _initPromise: "none", "pending", "fulfilled" or "rejected"
\*   stage        where the initialization is: "idle", "importing",
\*                "initializing" (SkeletonBuilder.init awaited) or "settled"
\*   imports      import() calls started;  inits  SkeletonBuilder.init calls
\*   error        what the initialization threw
\*   ready        FoldAndCutEngine.ready
\*   observed     what the awaits of load() have given so far
IdleService ==
    [mod |-> NULL, initPromise |-> "none", stage |-> "idle", imports |-> 0,
     inits |-> 0, error |-> "none", ready |-> FALSE, observed |-> {}]

\* the service once the initialization has succeeded
LoadedService ==
    [mod |-> 1, initPromise |-> "fulfilled", stage |-> "settled", imports |-> 1,
     inits |-> 1, error |-> "none", ready |-> TRUE,
     observed |-> { [load |-> "ready", api |-> 1, error |-> "none"] }]

\* StartsInitialization, had a rejected promise been replaced by a new one
StartsInitialization_RetriesRejected(svc) ==
    svc.mod = NULL /\ svc.initPromise \in {"none", "rejected"}

\* StartsInitialization, had the test of _initPromise been left out
StartsInitialization_NoPromiseTest(svc) == svc.mod = NULL

\* load() goes past "if (this._mod) return this._mod" and finds no promise
StartsInitialization(svc) == svc.mod = NULL /\ svc.initPromise = "none"

\* the service after the synchronous part of load(): the first call creates
\* the promise and starts the import
ServiceAfterLoad(svc) ==
    IF StartsInitialization(svc)
    THEN [svc EXCEPT !.initPromise = "pending", !.stage = "importing",
                     !.imports = @ + 1]
    ELSE svc

\* what "await StraightSkeletonService.load()" gives with the service as it is
LoadGives(svc) ==
    IF svc.mod # NULL THEN [load |-> "ready", api |-> svc.mod, error |-> "none"]
    ELSE IF svc.initPromise = "fulfilled"
         THEN [load |-> "ready", api |-> svc.mod, error |-> "none"]
    ELSE IF svc.initPromise = "rejected"
         THEN [load |-> "failed", api |-> NULL, error |-> svc.error]
    ELSE [load |-> "awaiting", api |-> NULL, error |-> "none"]

\* a call of kind "init" (FoldAndCutEngine.init), "run" (FoldAndCutEngine.run),
\* "appInit" (App._initEngine) or "appRun" (App.run) that awaits load()
Call(kind, selectedId) == [kind |-> kind, selectedId |-> selectedId]

\* a call's await of load() has an answer: its continuation is a microtask,
\* which runs before any other event
Resuming == calls # <<>> /\ LoadGives(service).load # "awaiting"

\* App after one of its calls resumes, o being what the body of run left as
\* outcome: the rest of the try block of App._initEngine or App.run, or its
\* catch block
AppResumes_CatchDropsResult(c, g, o, a) ==
    IF c.kind = "appInit"
    THEN IF g.load = "ready" THEN [a EXCEPT !.status = "ready"]
         ELSE [a EXCEPT !.error = g.error, !.status = "initFailed"]
    ELSE IF c.kind = "appRun"
    THEN IF g.load # "ready"
         THEN [a EXCEPT !.result = <<>>, !.error = g.error, !.status = "failed"]
         ELSE IF o.kind = "returned"
         THEN [a EXCEPT !.result = <<o.bundle>>, !.status = "done"]
         ELSE [a EXCEPT !.result = <<>>, !.error = o.error, !.status = "failed"]
    ELSE a

AppResumes(c, g, o, a) ==
    IF c.kind = "appInit"
    THEN IF g.load = "ready" THEN [a EXCEPT !.status = "ready"]
         ELSE [a EXCEPT !.error = g.error, !.status = "initFailed"]
    ELSE IF c.kind = "appRun"
    THEN IF g.load # "ready" THEN [a EXCEPT !.error = g.error, !.status = "failed"]
         ELSE IF o.kind = "returned"
         THEN [a EXCEPT !.result = <<o.bundle>>, !.status = "done"]
         ELSE [a EXCEPT !.error = o.error, !.status = "failed"]
    ELSE a

\* the synchronous part of a call up to its await of load()
MakeCall(c) ==
    /\ ~Resuming
    /\ Len(calls) < MaxCalls
    /\ calls' = Append(calls, c)
    /\ service' = ServiceAfterLoad(service)

\* FoldAndCutEngine.init() is called
CallInit ==
    /\ MakeCall(Call("init", NULL))
    /\ UNCHANGED <<project, selectedShapeId, viewport, solver, timeline, runCall, built,
                   solverCalls, outcome, app, probe>>

\* FoldAndCutEngine.run(project, selectedId, viewport) is called
CallRun ==
    /\ MakeCall(Call("run", selectedShapeId))
    /\ UNCHANGED <<project, selectedShapeId, viewport, solver, timeline, runCall, built,
                   solverCalls, outcome, app, probe>>

\* the first waiting call resumes with what load() gave: init sets ready, run
\* executes its body, and the App goes on after its await or into its catch
ResumeCall ==
    /\ Resuming
    /\ LET c == Head(calls)
           g == LoadGives(service)
           runs == c.kind \in {"run", "appRun"} /\ g.load = "ready"
       IN /\ IF runs THEN RunBody(c.selectedId)
             ELSE UNCHANGED <<runCall, built, solverCalls, outcome>>
          /\ service' = [service EXCEPT
                !.ready = @ \/ (c.kind \in {"init", "appInit"} /\ g.load = "ready"),
                !.observed = @ \cup {g}]
          /\ app' = AppResumes(c, g, outcome', app)
    /\ calls' = Tail(calls)
    /\ UNCHANGED <<project, selectedShapeId, viewport, solver, timeline, probe>>

\* the initialization settles
Settle(svc) ==
    /\ service' = svc
    /\ UNCHANGED <<project, selectedShapeId, viewport, solver, timeline, runCall, built,
                   solverCalls, outcome, calls, app, probe>>

Reject(svc, error) ==
    [svc EXCEPT !.initPromise = "rejected", !.stage = "settled", !.error = error]

\* the import fails
ImportFails ==
    /\ service.stage = "importing"
    /\ Settle(Reject(service, "ImportFailed"))

\* the import gives a module without SkeletonBuilder
ImportLacksBuilder ==
    /\ service.stage = "importing"
    /\ Settle(Reject(service, "SkeletonBuilderNotFound"))

\* the import gives the module: api.SkeletonBuilder.init() is awaited
ImportSucceeds ==
    /\ service.stage = "importing"
    /\ Settle([service EXCEPT !.stage = "initializing", !.inits = @ + 1])

\* SkeletonBuilder.init() fails
InitFails ==
    /\ service.stage = "initializing"
    /\ Settle(Reject(service, "SkeletonInitFailed"))

\* SkeletonBuilder.init() succeeds: this._mod = api
InitSucceeds ==
    /\ service.stage = "initializing"
    /\ Settle([service EXCEPT !.mod = service.imports, !.initPromise = "fulfilled",
                              !.stage = "settled"])

\* ------------------------------------------------------------- App (app.js)

MaxEdits == 2       \* history.exec calls in a behaviour
MaxPending == 2     \* calls of the App waiting for the solver at a time

\* App after "new App()" with nothing autosaved
\*   result      App.result: <<>> for null, <<bundle>> otherwise
\*   error       the text of the error box, "" when it is hidden
\*   status      the text of the status line
\*   undoStack, redoStack   App.history
\*   execs       history.exec calls made so far (the next shape id is execs + 1)
\*   saved       localStorage[LOCAL_KEY + '_manual'] parsed: <<>> when absent
\*   exported    the name of the last file handed to downloadTextFile
NewApp ==
    [result |-> <<>>, error |-> "", status |-> "none",
     undoStack |-> <<>>, redoStack |-> <<>>, execs |-> 0,
     saved |-> <<>>, exported |-> "none"]

NoProbe == [fn |-> "none"]

\* a page without the timeline card
NoTimeline == <<>>

engineVars == <<runCall, built, solverCalls, outcome>>

serviceVars == <<service, calls>>

\* PolylineShape.toJSON
ShapeToJSON(shape) ==
    [id |-> shape.id, type |-> shape.type, closed |-> shape.closed,
     points |-> shape.points]

\* the id uid('shape') gives a shape made from an object without a type
TypelessShapeId == 90

\* ShapeFactory.fromJSON, had it kept the object's type as it is
ShapeFromJSON_KeepsType(obj) ==
    IF "type" \notin DOMAIN obj THEN PolylineShape(TypelessShapeId, <<>>, FALSE)
    ELSE [id |-> obj.id, type |-> obj.type, closed |-> obj.closed,
          points |-> obj.points]

\* ShapeFactory.fromJSON: an object without a type gives an empty open
\* polyline, any other PolylineShape.fromJSON(obj), closed when obj.closed
\* or when the type is 'polygon'
ShapeFromJSON(obj) ==
    IF "type" \notin DOMAIN obj THEN PolylineShape(TypelessShapeId, <<>>, FALSE)
    ELSE PolylineShape(obj.id, obj.points, obj.closed \/ obj.type = "polygon")

\* new Project().settings, of which the grid size is kept
DefaultSettings == [gridSize |-> 25]

\* a Project of the given shapes
NewProject(shapes) == [shapes |-> shapes, settings |-> DefaultSettings]

\* Project.toJSON
ProjectToJSON(proj) ==
    [settings |-> proj.settings,
     shapes |-> [i \in 1..Len(proj.shapes) |-> ShapeToJSON(proj.shapes[i])]]

\* { ...settings, ...obj.settings }
MergeSettings(settings, obj) ==
    IF "settings" \notin DOMAIN obj THEN settings
    ELSE [k \in DOMAIN settings |->
             IF k \in DOMAIN obj.settings THEN obj.settings[k] ELSE settings[k]]

\* obj.shapes.map(ShapeFactory.fromJSON)
ShapesFromJSON(obj) ==
    [i \in 1..Len(obj.shapes) |-> ShapeFromJSON(obj.shapes[i])]

\* Project.removeShapeById: the first shape of that id is spliced out
removeShapeById(proj, id) ==
    LET hits == {i \in 1..Len(proj.shapes) : proj.shapes[i].id = id}
        idx == CHOOSE i \in hits : \A k \in hits : i <= k
    IN IF hits = {} THEN proj
       ELSE [proj EXCEPT !.shapes =
                [i \in 1..(Len(proj.shapes) - 1) |->
                    IF i < idx THEN proj.shapes[i] ELSE proj.shapes[i + 1]]]

\* the commands of history.js
AddShapeCommand(shapeJSON) == [label |-> "add-shape", shapeJSON |-> shapeJSON]

RemoveShapeCommand(shapeJSON) == [label |-> "remove-shape", shapeJSON |-> shapeJSON]

SetProjectCommand(before, after) ==
    [label |-> "set-project", before |-> before, after |-> after]

UpdateShapeCommand(shapeId, beforeJSON, afterJSON) ==
    [label |-> "update-shape", shapeId |-> shapeId,
     beforeJSON |-> beforeJSON, afterJSON |-> afterJSON]

\* UpdateShapeCommand._apply: the first shape of that id is replaced by the
\* shape made from json, given that id
ApplyUpdate(proj, shapeId, json) ==
    LET hits == {i \in 1..Len(proj.shapes) : proj.shapes[i].id = shapeId}
        idx == CHOOSE i \in hits : \A k \in hits : i <= k
    IN IF hits = {} THEN proj
       ELSE [proj EXCEPT !.shapes[idx] = [ShapeFromJSON(json) EXCEPT !.id = shapeId]]

\* SetProjectCommand.do and undo throw at obj.shapes.map when the object has
\* no shapes array, after the settings were assigned
CommandThrows(cmd, obj) == cmd.label = "set-project" /\ "shapes" \notin DOMAIN obj

\* SetProjectCommand.do or undo towards the project JSON obj: what it has
\* made of the project when it returns or throws
SetProjectTo(proj, obj) ==
    IF "shapes" \notin DOMAIN obj
    THEN [proj EXCEPT !.settings = MergeSettings(@, obj)]
    ELSE [proj EXCEPT !.settings = MergeSettings(@, obj),
                      !.shapes = ShapesFromJSON(obj)]

\* cmd.do(project) and cmd.undo(project)
CommandDo(cmd, proj) ==
    IF cmd.label = "add-shape"
    THEN [proj EXCEPT !.shapes = Append(@, ShapeFromJSON(cmd.shapeJSON))]
    ELSE IF cmd.label = "remove-shape"
    THEN removeShapeById(proj, cmd.shapeJSON.id)
    ELSE IF cmd.label = "update-shape"
    THEN ApplyUpdate(proj, cmd.shapeId, cmd.afterJSON)
    ELSE SetProjectTo(proj, cmd.after)

CommandUndo(cmd, proj) ==
    IF cmd.label = "add-shape"
    THEN removeShapeById(proj, cmd.shapeJSON.id)
    ELSE IF cmd.label = "remove-shape"
    THEN [proj EXCEPT !.shapes = Append(@, ShapeFromJSON(cmd.shapeJSON))]
    ELSE IF cmd.label = "update-shape"
    THEN ApplyUpdate(proj, cmd.shapeId, cmd.beforeJSON)
    ELSE SetProjectTo(proj, cmd.before)

ExecHistory_DropsResult(cmd, a) ==
    [a EXCEPT !.undoStack = Append(@, cmd), !.redoStack = <<>>, !.execs = @ + 1,
              !.result = <<>>]

\* UndoManager.exec(cmd, project): what it makes of the App
ExecHistory(cmd, a) ==
    [a EXCEPT !.undoStack = Append(@, cmd), !.redoStack = <<>>, !.execs = @ + 1]

\* an event handler runs: no continuation is waiting, and for the handlers
\* that call history.exec the bound on them is not reached
Idle == ~Resuming

CanExec == Idle /\ app.execs < MaxEdits

\* a tool commits a shape: history.exec(new AddShapeCommand(shape.toJSON()))
AddShape(points, closed) ==
    /\ CanExec
    /\ LET shape == PolylineShape(app.execs + 1, points, closed)
           cmd == AddShapeCommand(ShapeToJSON(shape))
       IN /\ project' = CommandDo(cmd, project)
          /\ app' = ExecHistory(cmd, app)
    /\ UNCHANGED <<selectedShapeId, viewport, solver, timeline, engineVars, serviceVars, probe>>

\* the select tool's press: App.setSelectedShapeId(hit ? hit.id : null)
SelectShape(id) ==
    /\ Idle
    /\ selectedShapeId' = id
    /\ UNCHANGED <<project, viewport, solver, timeline, engineVars, serviceVars, app, probe>>

\* the delete button or the Delete key
DeleteSelected ==
    /\ CanExec
    /\ getShapeById(project, selectedShapeId) # <<>>
    /\ LET cmd == RemoveShapeCommand(ShapeToJSON(getShapeById(project, selectedShapeId)[1]))
       IN /\ project' = CommandDo(cmd, project)
          /\ app' = ExecHistory(cmd, app)
    /\ selectedShapeId' = NULL
    /\ UNCHANGED <<viewport, solver, timeline, engineVars, serviceVars, probe>>

\* UndoManager.undo(project)
Undo ==
    /\ Idle
    /\ app.undoStack # <<>>
    /\ LET cmd == app.undoStack[Len(app.undoStack)]
       IN /\ project' = CommandUndo(cmd, project)
          /\ app' = [app EXCEPT !.undoStack = SubSeq(@, 1, Len(@) - 1),
                                !.redoStack = Append(@, cmd)]
    /\ UNCHANGED <<selectedShapeId, viewport, solver, timeline, engineVars, serviceVars, probe>>

\* UndoManager.redo(project)
Redo ==
    /\ Idle
    /\ app.redoStack # <<>>
    /\ LET cmd == app.redoStack[Len(app.redoStack)]
       IN /\ project' = CommandDo(cmd, project)
          /\ app' = [app EXCEPT !.redoStack = SubSeq(@, 1, Len(@) - 1),
                                !.undoStack = Append(@, cmd)]
    /\ UNCHANGED <<selectedShapeId, viewport, solver, timeline, engineVars, serviceVars, probe>>

\* the run button: App.run up to its await of engine.run
AppRun ==
    /\ Len(calls) < MaxPending
    /\ MakeCall(Call("appRun", selectedShapeId))
    /\ app' = [app EXCEPT !.error = "", !.status = "computing"]
    /\ UNCHANGED <<project, selectedShapeId, viewport, solver, timeline, engineVars, probe>>

\* the clear-result button
ClearResult ==
    /\ Idle
    /\ app' = [app EXCEPT !.result = <<>>]
    /\ UNCHANGED <<project, selectedShapeId, viewport, solver, timeline, engineVars,
                   serviceVars, probe>>

\* the export buttons: Exporter.exportProjectJSON, exportSVG, exportResultJSON
Export(button) ==
    /\ Idle
    /\ app' = [app EXCEPT !.exported =
                  IF button = "project" THEN "project.json"
                  ELSE IF button = "svg" THEN "crease-pattern.svg"
                  ELSE IF app.result = <<>> THEN "result.json"
                  ELSE "crease-pattern.json"]
    /\ UNCHANGED <<project, selectedShapeId, viewport, solver, timeline, engineVars,
                   serviceVars, probe>>

\* the save button: App._saveLocal
SaveLocal ==
    /\ Idle
    /\ app' = [app EXCEPT !.saved = <<ProjectToJSON(project)>>, !.status = "saved"]
    /\ UNCHANGED <<project, selectedShapeId, viewport, solver, timeline, engineVars,
                   serviceVars, probe>>

\* the try block of _loadLocal and importProjectFromFile once the text is
\* there, parsed being <<>> when JSON.parse throws, <<obj>> otherwise; when
\* SetProjectCommand.do throws, history.exec is left before the push and the
\* catch block shows the error
SetProjectFrom(parsed, okStatus, errorText) ==
    IF parsed = <<>>
    THEN /\ app' = [app EXCEPT !.error = errorText]
         /\ UNCHANGED <<project, selectedShapeId>>
    ELSE LET cmd == SetProjectCommand(ProjectToJSON(project), parsed[1])
         IN IF CommandThrows(cmd, cmd.after)
            THEN /\ project' = CommandDo(cmd, project)
                 /\ app' = [app EXCEPT !.error = errorText]
                 /\ UNCHANGED selectedShapeId
            ELSE /\ project' = CommandDo(cmd, project)
                 /\ app' = [ExecHistory(cmd, app) EXCEPT !.result = <<>>,
                                                        !.status = okStatus]
                 /\ selectedShapeId' = NULL

\* the load button: App._loadLocal
LoadLocal ==
    /\ CanExec
    /\ IF app.saved = <<>>
       THEN /\ app' = [app EXCEPT !.error = "NoLocalSave"]
            /\ UNCHANGED <<project, selectedShapeId>>
       ELSE SetProjectFrom(app.saved, "loaded", "LoadFailed")
    /\ UNCHANGED <<viewport, solver, timeline, engineVars, serviceVars, probe>>

\* a file is chosen for import: App.importProjectFromFile after file.text()
ImportProject(parsed) ==
    /\ CanExec
    /\ SetProjectFrom(parsed, "imported", "ImportFailed")
    /\ UNCHANGED <<viewport, solver, timeline, engineVars, serviceVars, probe>>

\* --------------------------------------------------------------- the inputs

\* the point sequences a scene's shapes are drawn from
Pts(xys) == [i \in 1..Len(xys) |-> pt(xys[i][1], xys[i][2])]

\* a square whose first point was entered twice, and a triangle inside it
SquarePoints == Pts(<< <<2, 2>>, <<2, 2>>, <<2, 10>>, <<10, 10>>, <<10, 2>> >>)

TrianglePoints == Pts(<< <<4, 4>>, <<8, 4>>, <<6, 8>> >>)

\* a square apart from both
FarSquarePoints == Pts(<< <<20, 0>>, <<26, 0>>, <<26, 6>>, <<20, 6>> >>)

\* an open polyline
OpenPoints == Pts(<< <<0, 0>>, <<12, 0>>, <<12, 12>> >>)

\* the four of them; a closed
\* shape that returns to its first point; one whose points collapse to two;
\* a bowtie
ShapePalette ==
    { [points |-> SquarePoints, closed |-> TRUE],
      [points |-> TrianglePoints, closed |-> TRUE],
      [points |-> FarSquarePoints, closed |-> TRUE],
      [points |-> OpenPoints, closed |-> FALSE],
      [points |-> Pts(<< <<0, 0>>, <<4, 0>>, <<0, 0>> >>), closed |-> TRUE],
      [points |-> Pts(<< <<0, 0>>, <<0, 0>>, <<4, 0>> >>), closed |-> TRUE],
      [points |-> Pts(<< <<0, 0>>, <<4, 4>>, <<4, 0>>, <<0, 4>> >>), closed |-> TRUE] }

\* the scenes of n shapes, the shape drawn i-th having id i
ScenesOf(n) ==
    { [i \in 1..n |-> PolylineShape(i, f[i].points, f[i].closed)] :
        f \in [1..n -> ShapePalette] }

Scenes == UNION { ScenesOf(n) : n \in 0..MaxShapes }

DefaultViewportW == 1000

\* the skeleton of the square (0,0)-(8,8): four faces around the apex (4,4)
PyramidSkeleton ==
    [vertices |-> << <<0, 0, 0>>, <<8, 0, 0>>, <<8, 8, 0>>, <<0, 8, 0>>, <<4, 4, 4>> >>,
     polygons |-> << <<1, 2, 5>>, <<2, 3, 5>>, <<3, 4, 5>>, <<4, 1, 5>> >>]

\* solver outputs: three boundary vertices on a line, a vertex above the
\* middle one, and one more vertex
LastVertices ==
    { <<4, 4, 4>>, <<5, 4, 4>>, <<7, 4, 4>>, <<4, 8, 8>>, <<8, 4, 0>> }

VertexLists ==
    { << <<0, 0, 0>>, <<4, 0, 0>>, <<8, 0, 0>>, <<4, 4, 4>>, p >> :
        p \in LastVertices }

\* faces are cycles of distinct vertex indices: every triangle, three quads
FacePool ==
    { f \in [1..3 -> 1..5] : f[1] < f[2] /\ f[2] < f[3] } \cup
        { <<1, 2, 5, 4>>, <<2, 3, 5, 4>>, <<1, 3, 5, 4>> }

\* the face lists: up to MaxFaces different faces
FaceLists ==
    UNION { { fs \in [1..n -> FacePool] :
                \A i \in 1..n : \A j \in 1..n : fs[i] = fs[j] => i = j } :
            n \in 1..MaxFaces }

Skeletons ==
    { [vertices |-> v, polygons |-> ps] : v \in VertexLists, ps \in FaceLists }

ViewportWidths == { 640, DefaultViewportW }

\* -------------------------------------------------------- specifications

InitEngine ==
    /\ runCall = NoCall
    /\ built = NotBuilt
    /\ solverCalls = 0
    /\ outcome = NotRun
    /\ service = LoadedService
    /\ calls = <<>>
    /\ app = NewApp
    /\ probe = NoProbe

Next == Run

\* SpecRings: any scene, any selection; the solver fails or returns a skeleton
InitRings ==
    /\ project \in { NewProject(s) : s \in Scenes }
    /\ selectedShapeId \in 0..(Len(project.shapes) + 1)
    /\ viewport = [w |-> DefaultViewportW]
    /\ solver \in { <<>>, <<PyramidSkeleton>> }
    /\ timeline = NoTimeline
    /\ InitEngine

SpecRings == InitRings /\ [][Next]_vars

\* SpecCreases: one square, nothing selected; the solver returns any skeleton
InitCreases ==
    /\ project = NewProject(<< PolylineShape(1,
                      Pts(<< <<0, 0>>, <<8, 0>>, <<8, 8>>, <<0, 8>> >>), TRUE) >>)
    /\ selectedShapeId = NULL
    /\ viewport \in { [w |-> w] : w \in ViewportWidths }
    /\ solver \in { <<sk>> : sk \in Skeletons } \cup { <<>> }
    /\ timeline = NoTimeline
    /\ InitEngine

SpecCreases == InitCreases /\ [][Next]_vars

\* SpecService: init() and run() are called in any order while the one
\* initialization proceeds
InitService ==
    /\ project \in { NewProject(<< PolylineShape(1, SquarePoints, TRUE) >>),
                     NewProject(<< PolylineShape(1, SquarePoints, TRUE),
                                   PolylineShape(2, OpenPoints, FALSE) >>) }
    /\ selectedShapeId \in 0..Len(project.shapes)
    /\ viewport = [w |-> DefaultViewportW]
    /\ solver \in { <<>>, <<PyramidSkeleton>> }
    /\ timeline = NoTimeline
    /\ runCall = NoCall
    /\ built = NotBuilt
    /\ solverCalls = 0
    /\ outcome = NotRun
    /\ service = IdleService
    /\ calls = <<>>
    /\ app = NewApp
    /\ probe = NoProbe

NextService ==
    \/ CallInit
    \/ CallRun
    \/ ResumeCall
    \/ ImportFails
    \/ ImportLacksBuilder
    \/ ImportSucceeds
    \/ InitFails
    \/ InitSucceeds

SpecService == InitService /\ [][NextService]_vars

\* ------------------------------------- the editor (app.js, tools.js, history.js)

MaxHandle == 1      \* vertex handles of a shape the pointer is pressed on
MaxPresses == 2     \* pointerdown events in a behaviour

\* App after "new App()" with the tools of tools.js in it
\*   autosave    localStorage[LOCAL_KEY] parsed: <<>> when absent
\*   presses     pointerdown events so far
\*   currentTool the name of App.currentTool
\*   selectState SelectTool.state
\*   rectState   RectTool.state, without the start and current a release
\*               leaves behind, which nothing reads
\* Of the tools that draw, the rectangle tool is there; the pen and the n-gon
\* tool commit their shapes as it does.
NewEditorApp ==
    [result |-> <<>>, error |-> "", status |-> "none",
     undoStack |-> <<>>, redoStack |-> <<>>, execs |-> 0,
     saved |-> <<>>, exported |-> "none",
     autosave |-> <<>>, presses |-> 0, currentTool |-> "select",
     selectState |-> [mode |-> "idle"],
     rectState |-> [dragging |-> FALSE]]

\* the App's project, selection and fields as one value that a handler takes
\* and gives back
Editor == [project |-> project, selectedShapeId |-> selectedShapeId, app |-> app]

\* history.onChange: _updateUndoRedoUI and _autosave
onChange(e) == [e EXCEPT !.app.autosave = <<ProjectToJSON(e.project)>>]

\* UndoManager.exec of a command that does not throw
exec(e, cmd) ==
    onChange([e EXCEPT !.project = CommandDo(cmd, @),
                       !.app = ExecHistory(cmd, @)])

\* UndoManager.undo, had it popped the oldest command
undo_Oldest(e) ==
    IF e.app.undoStack = <<>> THEN e
    ELSE LET cmd == e.app.undoStack[1]
         IN onChange([e EXCEPT !.project = CommandUndo(cmd, @),
                               !.app.undoStack = Tail(@),
                               !.app.redoStack = Append(@, cmd)])

\* UndoManager.undo
undo(e) ==
    IF e.app.undoStack = <<>> THEN e
    ELSE LET cmd == e.app.undoStack[Len(e.app.undoStack)]
         IN onChange([e EXCEPT !.project = CommandUndo(cmd, @),
                               !.app.undoStack = SubSeq(@, 1, Len(@) - 1),
                               !.app.redoStack = Append(@, cmd)])

\* UndoManager.redo
redo(e) ==
    IF e.app.redoStack = <<>> THEN e
    ELSE LET cmd == e.app.redoStack[Len(e.app.redoStack)]
         IN onChange([e EXCEPT !.project = CommandDo(cmd, @),
                               !.app.redoStack = SubSeq(@, 1, Len(@) - 1),
                               !.app.undoStack = Append(@, cmd)])

\* App.getSelectedShape: <<>> for null
getSelectedShape(e) ==
    IF e.selectedShapeId = NULL THEN <<>>
    ELSE getShapeById(e.project, e.selectedShapeId)

\* snapPoint(p, grid): Math.round(x / grid) * grid, Math.round being the
\* floor of x + 1/2
snapPoint(p, grid) ==
    pt(((2 * p.x + grid) \div (2 * grid)) * grid,
       ((2 * p.y + grid) \div (2 * grid)) * grid)

\* the world point a tool works with: settings.snap stays on
Snapped(e, p) == snapPoint(p, e.project.settings.gridSize)

\* the test of PolylineShape.hitTest on the segment a-b: the point of the
\* segment nearest to p, an end of it when the foot of p falls outside, is no
\* farther than eps
NearSegment(p, a, b, eps) ==
    LET m == len2(sub(b, a))
        n == dot(sub(p, a), sub(b, a))
    IN IF n <= 0 THEN len2(sub(p, a)) <= eps * eps
       ELSE IF n >= m THEN len2(sub(p, b)) <= eps * eps
       ELSE len2(sub(p, a)) * m - n * n <= eps * eps * m

\* PolylineShape.hitTest(p, eps)
hitTest(shape, p, eps) ==
    IF shape.closed THEN pointInPolygon(asQ(p), shape.points)
    ELSE \E i \in 1..(Len(shape.points) - 1) :
            NearSegment(p, shape.points[i], shape.points[i + 1], eps)

\* PolylineShape.translate
translate(shape, dx, dy) ==
    [shape EXCEPT !.points =
        [i \in 1..Len(@) |-> pt(@[i].x + dx, @[i].y + dy)]]

\* SelectTool.onPointerDown at the world point p, vIdx being the vertex
\* handle under the pointer counted from 1, 0 when there is none
selectPointerDown(e, p, vIdx) ==
    LET selected == getSelectedShape(e)
        hits == {i \in 1..Len(e.project.shapes) : hitTest(e.project.shapes[i], p, 8)}
        hit == e.project.shapes[CHOOSE i \in hits : \A k \in hits : k <= i]
        nowSel == getShapeById(e.project, hit.id)[1]
    IN IF selected # <<>> /\ vIdx > 0
       THEN [e EXCEPT !.app.selectState =
                [mode |-> "dragVertex", shapeId |-> selected[1].id,
                 vertexIndex |-> vIdx, start |-> p,
                 before |-> ShapeToJSON(selected[1])]]
       ELSE IF hits # {}
       THEN [e EXCEPT !.selectedShapeId = hit.id,
                      !.app.selectState =
                          [mode |-> "dragShape", shapeId |-> nowSel.id,
                           start |-> p, before |-> ShapeToJSON(nowSel)]]
       ELSE [e EXCEPT !.selectedShapeId = NULL,
                      !.app.selectState = [mode |-> "idle"]]

\* the index of the first shape of that id, 0 when there is none
IndexOfShape(proj, id) ==
    LET hits == {i \in 1..Len(proj.shapes) : proj.shapes[i].id = id}
    IN IF hits = {} THEN 0 ELSE CHOOSE i \in hits : \A k \in hits : i <= k

\* SelectTool.onPointerMove to the world point p0
selectPointerMove(e, p0) ==
    LET state == e.app.selectState
        p == Snapped(e, p0)
        idx == IndexOfShape(e.project, state.shapeId)
    IN IF state.mode = "idle" THEN e
       ELSE IF idx = 0 THEN e
       ELSE IF state.mode = "dragVertex"
       THEN IF state.vertexIndex \in 1..Len(e.project.shapes[idx].points)
            THEN [e EXCEPT !.project.shapes[idx].points[state.vertexIndex] = p]
            ELSE [e EXCEPT !.project.shapes[idx].points = Append(@, p)]
       ELSE LET beforeShape == PolylineShape(state.before.id, state.before.points,
                                   state.before.closed \/ state.before.type = "polygon")
            IN [e EXCEPT !.project.shapes[idx] =
                   translate(beforeShape, p.x - state.start.x, p.y - state.start.y)]

\* SelectTool.onPointerUp, had it recorded every release
selectPointerUp_AlwaysRecords(e) ==
    LET state == e.app.selectState
        afterShape == getShapeById(e.project, state.shapeId)
        idle == [e EXCEPT !.app.selectState = [mode |-> "idle"]]
    IN IF state.mode = "idle" THEN e
       ELSE IF afterShape # <<>>
       THEN exec(idle, UpdateShapeCommand(state.shapeId, state.before,
                                          ShapeToJSON(afterShape[1])))
       ELSE idle

\* SelectTool.onPointerUp
selectPointerUp(e) ==
    LET state == e.app.selectState
        afterShape == getShapeById(e.project, state.shapeId)
        idle == [e EXCEPT !.app.selectState = [mode |-> "idle"]]
    IN IF state.mode = "idle" THEN e
       ELSE IF afterShape # <<>> /\ ShapeToJSON(afterShape[1]) # state.before
       THEN exec(idle, UpdateShapeCommand(state.shapeId, state.before,
                                          ShapeToJSON(afterShape[1])))
       ELSE idle

\* App.showError
showError(e, text) == [e EXCEPT !.app.error = text]

\* a tool's history.exec(new AddShapeCommand(shape.toJSON())) of the shape it
\* has just made
commitShape(e, points, closed) ==
    exec(e, AddShapeCommand(ShapeToJSON(PolylineShape(e.app.execs + 1, points, closed))))

rectToPoints(a, b) ==
    LET x1 == IF a.x < b.x THEN a.x ELSE b.x
        y1 == IF a.y < b.y THEN a.y ELSE b.y
        x2 == IF a.x < b.x THEN b.x ELSE a.x
        y2 == IF a.y < b.y THEN b.y ELSE a.y
    IN << pt(x1, y1), pt(x2, y1), pt(x2, y2), pt(x1, y2) >>

\* RectTool.onPointerDown, onPointerMove and onPointerUp
rectPointerDown(e, p0) ==
    [e EXCEPT !.app.rectState =
        [dragging |-> TRUE, start |-> Snapped(e, p0), current |-> Snapped(e, p0)]]

rectPointerMove(e, p0) ==
    IF ~e.app.rectState.dragging THEN e
    ELSE [e EXCEPT !.app.rectState.current = Snapped(e, p0)]

rectPointerUp(e) ==
    LET state == e.app.rectState
        pts == rectToPoints(state.start, state.current)
        released == [e EXCEPT !.app.rectState = [dragging |-> FALSE]]
    IN IF ~state.dragging THEN e
       ELSE IF Abs(pts[3].x - pts[1].x) < 5 \/ Abs(pts[3].y - pts[1].y) < 5
       THEN showError(released, "RectangleTooSmall")
       ELSE commitShape(released, pts, TRUE)

\* the listeners of _bindCanvasEvents
pointerdown(e, p, vIdx) ==
    LET cleared == [e EXCEPT !.app.error = "", !.app.presses = @ + 1]
    IN IF e.app.currentTool = "select" THEN selectPointerDown(cleared, p, vIdx)
       ELSE rectPointerDown(cleared, p)

pointermove(e, p) ==
    IF e.app.currentTool = "select" THEN selectPointerMove(e, p)
    ELSE rectPointerMove(e, p)

pointerup(e) ==
    IF e.app.currentTool = "select" THEN selectPointerUp(e)
    ELSE rectPointerUp(e)

keydown(e, key) ==
    IF key = "Ctrl+Z" THEN undo(e)
    ELSE IF key \in {"Ctrl+Shift+Z", "Ctrl+Y"} THEN redo(e)
    ELSE IF key = "Delete"
    THEN IF getSelectedShape(e) = <<>> THEN e
         ELSE [exec(e, RemoveShapeCommand(ShapeToJSON(getSelectedShape(e)[1])))
                  EXCEPT !.selectedShapeId = NULL]
    ELSE e

\* App.setTool: deactivate of the tool left, activate of the tool entered
setTool(e, name) ==
    LET entered == [e EXCEPT !.app.currentTool = name]
    IN IF name = "rect" THEN [entered EXCEPT !.app.status = "rect"]
       ELSE entered

\* importProjectFromFile once the text is there, parsed being <<>> when
\* JSON.parse throws, <<obj>> otherwise
importProjectFromFile(e, parsed) ==
    IF parsed = <<>> THEN showError(e, "ImportFailed")
    ELSE LET cmd == SetProjectCommand(ProjectToJSON(e.project), parsed[1])
         IN IF CommandThrows(cmd, cmd.after)
            THEN showError([e EXCEPT !.project = CommandDo(cmd, @)], "ImportFailed")
            ELSE [exec(e, cmd) EXCEPT !.selectedShapeId = NULL,
                                      !.app.result = <<>>,
                                      !.app.status = "imported"]

\* the shapes the tools commit and the files chosen for import
ToolShapes ==
    { [points |-> SquarePoints, closed |-> TRUE],
      [points |-> OpenPoints, closed |-> FALSE] }

ImportFiles ==
    { <<>>,
      << [version |-> 1] >>,
      << [shapes |-> << ShapeToJSON(PolylineShape(9, FarSquarePoints, TRUE)) >>] >> }

\* SpecApp: the App from its construction on, under the user's events and the
\* progress of the solver's initialization
InitApp ==
    /\ project = NewProject(<<>>)
    /\ selectedShapeId = NULL
    /\ viewport = [w |-> DefaultViewportW]
    /\ solver \in { <<>>, <<PyramidSkeleton>> }
    /\ timeline = NoTimeline
    /\ runCall = NoCall
    /\ built = NotBuilt
    /\ solverCalls = 0
    /\ outcome = NotRun
    /\ service = ServiceAfterLoad(IdleService)
    /\ calls = << Call("appInit", NULL) >>
    /\ app = [NewApp EXCEPT !.status = "initializing"]
    /\ probe = NoProbe

NextApp ==
    \/ \E sh \in ToolShapes : AddShape(sh.points, sh.closed)
    \/ \E i \in 1..Len(project.shapes) : SelectShape(project.shapes[i].id)
    \/ SelectShape(NULL)
    \/ DeleteSelected
    \/ Undo
    \/ Redo
    \/ AppRun
    \/ ClearResult
    \/ \E button \in {"project", "svg", "pattern"} : Export(button)
    \/ SaveLocal
    \/ LoadLocal
    \/ \E parsed \in ImportFiles : ImportProject(parsed)
    \/ ResumeCall
    \/ ImportFails
    \/ ImportLacksBuilder
    \/ ImportSucceeds
    \/ InitFails
    \/ InitSucceeds

SpecApp == InitApp /\ [][NextApp]_vars

\* SpecEditor: the editor under pointer events, keys, tool switches and
\* imports, the solver standing by.  probe.base keeps the shapes the project
\* had when the undo stack was last empty with no drag of the select tool
\* under way
PointerPoints == { pt(10, 10), pt(30, 30) }

Keys == { "Ctrl+Z", "Ctrl+Shift+Z", "Ctrl+Y", "Delete", "Escape" }

ToolNames == { "select", "rect" }

AutosavedShape ==
    PolylineShape(7, << pt(0, 0), pt(25, 0), pt(25, 25), pt(0, 25) >>, TRUE)

EditorFiles ==
    { <<>>,
      << [settings |-> [gridSize |-> 50]] >>,
      << [settings |-> [gridSize |-> 50],
          shapes |-> << [id |-> 9, type |-> "polyline", closed |-> TRUE,
                         points |-> << pt(0, 0), pt(100, 0), pt(0, 100) >>],
                        [id |-> 10, type |-> "polygon", closed |-> FALSE,
                         points |-> << pt(200, 200), pt(225, 200), pt(225, 225) >>],
                        [points |-> << pt(0, 0), pt(25, 0) >>] >>] >> }

InitEditor ==
    /\ project \in { NewProject(<<>>), NewProject(<< AutosavedShape >>) }
    /\ selectedShapeId = NULL
    /\ viewport = [w |-> DefaultViewportW]
    /\ solver = <<>>
    /\ timeline = NoTimeline
    /\ runCall = NoCall
    /\ built = NotBuilt
    /\ solverCalls = 0
    /\ outcome = NotRun
    /\ service = LoadedService
    /\ calls = <<>>
    /\ app = [NewEditorApp EXCEPT !.autosave =
                 IF project.shapes = <<>> THEN <<>> ELSE <<ProjectToJSON(project)>>]
    /\ probe = [fn |-> "history", base |-> project.shapes]

\* a listener has run and left the editor as r
Handled(r) ==
    /\ project' = r.project
    /\ selectedShapeId' = r.selectedShapeId
    /\ app' = r.app
    /\ probe' = [fn |-> "history",
                 base |-> IF r.app.undoStack = <<>> /\ r.app.selectState.mode = "idle"
                          THEN r.project.shapes ELSE probe.base]
    /\ UNCHANGED <<viewport, solver, timeline, engineVars, serviceVars>>

\* history.exec is called at most MaxEdits times in a behaviour
WithinEdits(r) == r.app.execs <= MaxEdits

\* the vertex handles the view has drawn: those of the selected shape
Handles(e) ==
    IF getSelectedShape(e) = <<>> THEN {}
    ELSE { i \in 1..Len(getSelectedShape(e)[1].points) : i <= MaxHandle }

PointerDown ==
    \E p \in PointerPoints : \E vIdx \in {0} \cup Handles(Editor) :
        LET r == pointerdown(Editor, p, vIdx)
        IN /\ app.presses < MaxPresses
           /\ WithinEdits(r)
           /\ Handled(r)

PointerMove ==
    \E p \in PointerPoints :
        LET r == pointermove(Editor, p)
        IN WithinEdits(r) /\ Handled(r)

PointerUp ==
    LET r == pointerup(Editor)
    IN WithinEdits(r) /\ Handled(r)

KeyDown ==
    \E key \in Keys :
        LET r == keydown(Editor, key)
        IN WithinEdits(r) /\ Handled(r)

SetTool ==
    \E name \in ToolNames :
        LET r == setTool(Editor, name)
        IN WithinEdits(r) /\ Handled(r)

ImportFile ==
    \E parsed \in EditorFiles :
        LET r == importProjectFromFile(Editor, parsed)
        IN WithinEdits(r) /\ Handled(r)

NextEditor ==
    \/ PointerDown
    \/ PointerMove
    \/ PointerUp
    \/ KeyDown
    \/ SetTool
    \/ ImportFile

SpecEditor == InitEditor /\ [][NextEditor]_vars

\* SpecPolygons: the polygon predicates of utils.js applied to any point list
\* over a grid
MaxPolygonLen == 4

GridPoints == { pt(x, y) : x \in {0, 2, 4}, y \in {0, 2, 4} }

PointLists == UNION { [1..n -> GridPoints] : n \in 2..MaxPolygonLen }

\* the points asked about: every point with integer coordinates from one
\* below the grid to one above it
QueryPoints == { qpt(x, y, 1) : x \in (0 - 1)..5, y \in (0 - 1)..5 }

\* the engine and the App stand still while a function of utils.js is applied
InitKernel ==
    /\ project = NewProject(<<>>)
    /\ selectedShapeId = NULL
    /\ viewport = [w |-> DefaultViewportW]
    /\ solver = <<>>
    /\ timeline = NoTimeline
    /\ runCall = NoCall
    /\ built = NotBuilt
    /\ solverCalls = 0
    /\ outcome = NotRun
    /\ service = LoadedService
    /\ calls = <<>>
    /\ app = NewApp

kernelVars ==
    <<project, selectedShapeId, viewport, solver, timeline, runCall, built, solverCalls,
      outcome, service, calls, app>>

InitPolygons ==
    /\ InitKernel
    /\ probe \in { [fn |-> "none", points |-> P] : P \in PointLists }

\* the point list started at its k-th point
Rotated(points, k) ==
    [i \in 1..Len(points) |-> points[((i + k - 2) % Len(points)) + 1]]

\* isSimplePolygon(points)
ApplyIsSimplePolygon ==
    /\ probe.fn = "none"
    /\ probe' = [fn |-> "isSimplePolygon", points |-> probe.points,
                 simple |-> isSimplePolygon(probe.points),
                 simpleReversed |-> isSimplePolygon(Reverse(probe.points))]
    /\ UNCHANGED kernelVars

\* pointInPolygon(p, poly) for p the centroid of poly and for every point
\* asked about: those it returns true for
ApplyPointInPolygon ==
    /\ probe.fn = "none"
    /\ probe' = [fn |-> "pointInPolygon", points |-> probe.points,
                 centroid |-> polygonCentroid(probe.points),
                 centroidInside |->
                     pointInPolygon(polygonCentroid(probe.points), probe.points),
                 centroidInsideReordered |->
                     \A k \in 1..Len(probe.points) :
                        /\ pointInPolygon(polygonCentroid(probe.points),
                                          Rotated(probe.points, k))
                        /\ pointInPolygon(polygonCentroid(probe.points),
                                          Reverse(Rotated(probe.points, k))),
                 inside |-> { q \in QueryPoints : pointInPolygon(q, probe.points) }]
    /\ UNCHANGED kernelVars

NextPolygons == ApplyIsSimplePolygon \/ ApplyPointInPolygon

SpecPolygons == InitPolygons /\ [][NextPolygons]_vars

\* SpecSegments: segmentsIntersect applied to any two segments of the grid
InitSegments ==
    /\ InitKernel
    /\ probe \in { [fn |-> "none", a |-> a, b |-> b, c |-> c, d |-> d] :
                     a \in GridPoints, b \in GridPoints,
                     c \in GridPoints, d \in GridPoints }

\* segmentsIntersect(a, b, c, d)
ApplySegmentsIntersect ==
    /\ probe.fn = "none"
    /\ probe' = [probe EXCEPT !.fn = "segmentsIntersect"] @@
                [hit |-> segmentsIntersect(probe.a, probe.b, probe.c, probe.d)]
    /\ UNCHANGED kernelVars

NextSegments == ApplySegmentsIntersect

SpecSegments == InitSegments /\ [][NextSegments]_vars

\* SpecKeys: keyForUndirectedEdge applied to any two segments and tolerance
MaxCoord == 2

KeyPoints == { qpt(x, y, 1) : x \in (0 - MaxCoord)..MaxCoord, y \in 0..1 }

Tolerances == {2, 3}

InitKeys ==
    /\ InitKernel
    /\ probe \in { [fn |-> "none", a |-> a, b |-> b, c |-> c, d |-> d, q |-> q] :
                     a \in KeyPoints, b \in KeyPoints, c \in KeyPoints,
                     d \in KeyPoints, q \in Tolerances }

\* keyForUndirectedEdge(a, b, q), (b, a, q) and (c, d, q)
ApplyKeyForUndirectedEdge ==
    /\ probe.fn = "none"
    /\ probe' = [probe EXCEPT !.fn = "keyForUndirectedEdge"] @@
                [keyAB |-> keyForUndirectedEdge(probe.a, probe.b, probe.q),
                 keyBA |-> keyForUndirectedEdge(probe.b, probe.a, probe.q),
                 keyCD |-> keyForUndirectedEdge(probe.c, probe.d, probe.q)]
    /\ UNCHANGED kernelVars

NextKeys == ApplyKeyForUndirectedEdge

SpecKeys == InitKeys /\ [][NextKeys]_vars

\* ------------------------------------- the timeline card (timeline-origami.js)

MaxYears == 3       \* templates of the timeline
MaxPlays == 5       \* calls of play in a behaviour

\* the remainder of JavaScript's %, which has the sign of the dividend
JSRem(a, n) == IF a >= 0 THEN a % n ELSE 0 - ((0 - a) % n)

\* the index the card starts from: Number(root.dataset.index || 0), 0 when
\* that is NaN, brought into 0..n-1; raw is <<>> for an attribute that is
\* absent or no number, <<i>> for the integer i
StartIndex(raw, n) ==
    LET index == IF raw = <<>> THEN 0 ELSE raw[1]
    IN JSRem(JSRem(index, n) + n, n)

\* the card once the DOMContentLoaded listener has run
\*   years       years.length
\*   index       the variable index, which root.dataset.index repeats
\*   content     the place in years of the template shown in the card
\*   animating   root.dataset.animating: "none" while the attribute is absent
\*   isAnimating the card has the class is-animating
\*   pc          where play is: "idle" when no call of it is under way,
\*               "swap" at its await of the timer, "finish" at its await of
\*               the animations
\*   nextIndex   the nextIndex of the call of play under way
\*   reduced     prefersReduced
\*   plays       calls of play so far
NewTimeline(n, raw, reduced) ==
    [years |-> n, index |-> StartIndex(raw, n), content |-> StartIndex(raw, n) % n,
     animating |-> "none", isAnimating |-> FALSE, pc |-> "idle", nextIndex |-> 0,
     reduced |-> reduced, plays |-> 0]

\* play up to its first await or its return, had it not looked at
\* root.dataset.animating
play_Unguarded(tl) ==
    LET nextIndex == (tl.index + 1) % tl.years
    IN IF tl.reduced
       THEN [tl EXCEPT !.plays = @ + 1, !.index = nextIndex,
                       !.content = nextIndex % tl.years,
                       !.isAnimating = FALSE, !.animating = "0"]
       ELSE [tl EXCEPT !.plays = @ + 1, !.animating = "1", !.isAnimating = TRUE,
                       !.nextIndex = nextIndex, !.pc = "swap"]

\* play up to its first await or its return
play(tl) ==
    LET nextIndex == (tl.index + 1) % tl.years
    IN IF tl.animating = "1" THEN [tl EXCEPT !.plays = @ + 1]
       ELSE IF tl.reduced
       THEN [tl EXCEPT !.plays = @ + 1, !.index = nextIndex,
                       !.content = nextIndex % tl.years,
                       !.isAnimating = FALSE, !.animating = "0"]
       ELSE [tl EXCEPT !.plays = @ + 1, !.animating = "1", !.isAnimating = TRUE,
                       !.nextIndex = nextIndex, !.pc = "swap"]

\* the rest of the page stands still while the card is used
pageVars ==
    <<project, selectedShapeId, viewport, solver, runCall, built, solverCalls,
      outcome, service, calls, app, probe>>

\* the click listener of the card
CardClick ==
    /\ timeline.plays < MaxPlays
    /\ timeline' = play(timeline)
    /\ UNCHANGED pageVars

\* the keydown listener of the card
CardKeyDown(key) ==
    /\ timeline.plays < MaxPlays
    /\ timeline' = IF key \in {"Enter", " ", "ArrowRight"} THEN play(timeline)
                   ELSE timeline
    /\ UNCHANGED pageVars

\* the timer of play fires: the content is swapped near the peak
SwapContent ==
    /\ timeline.pc = "swap"
    /\ timeline' = [timeline EXCEPT !.index = timeline.nextIndex,
                                    !.content = timeline.nextIndex % timeline.years,
                                    !.pc = "finish"]
    /\ UNCHANGED pageVars

\* the animations have all settled: the cleanup of play
AnimationsSettle ==
    /\ timeline.pc = "finish"
    /\ timeline' = [timeline EXCEPT !.isAnimating = FALSE, !.animating = "0",
                                    !.pc = "idle", !.nextIndex = 0]
    /\ UNCHANGED pageVars

RawIndexes == { <<>> } \cup { <<i>> : i \in (0 - 2)..4 }

CardKeys == {"Enter", " ", "ArrowRight", "Tab"}

\* SpecTimeline: the card of a page with 1 to MaxYears templates, any
\* data-index, with or without reduced motion
InitTimeline ==
    /\ project = NewProject(<<>>)
    /\ selectedShapeId = NULL
    /\ viewport = [w |-> DefaultViewportW]
    /\ solver = <<>>
    /\ runCall = NoCall
    /\ built = NotBuilt
    /\ solverCalls = 0
    /\ outcome = NotRun
    /\ service = IdleService
    /\ calls = <<>>
    /\ app = NewApp
    /\ probe = NoProbe
    /\ timeline \in { NewTimeline(n, raw, reduced) :
                        n \in 1..MaxYears, raw \in RawIndexes,
                        reduced \in BOOLEAN }

NextTimeline ==
    \/ CardClick
    \/ \E key \in CardKeys : CardKeyDown(key)
    \/ SwapContent
    \/ AnimationsSettle

SpecTimeline == InitTimeline /\ [][NextTimeline]_vars

\* the timer fires and the animations end once they are started
SpecTimelineFair ==
    SpecTimeline /\ WF_vars(SwapContent) /\ WF_vars(AnimationsSettle)

\* ------------------------------------------------------ the ring builder

\* the run has been made
Ran == runCall.called

ShapeIndexOf(id) ==
    CHOOSE i \in 1..Len(project.shapes) : project.shapes[i].id = id

ShapeOf(id) == project.shapes[ShapeIndexOf(id)]

\* the ids of the scene's closed polygons, read off the shapes themselves
ClosedShapeIds ==
    { project.shapes[i].id : i \in { j \in 1..Len(project.shapes) :
                                       project.shapes[j].closed } }

OpenShapeIds ==
    { project.shapes[i].id : i \in { j \in 1..Len(project.shapes) :
                                       ~project.shapes[j].closed } }

\* the shape's points after the collapse of consecutive duplicates
Collapsed(id) == DropConsecutiveDuplicates(ShapeOf(id).points, <<>>)

AllRingsValid ==
    \A id \in ClosedShapeIds : ringFromShape(ShapeOf(id)).error = "none"

AbsAreaOf(id) == Abs(polygonArea(Collapsed(id)))

HasMaxAbsArea(id) == \A j \in ClosedShapeIds : AbsAreaOf(id) >= AbsAreaOf(j)

\* the closed shapes other than the chosen outer whose centroid is outside it
OutsideIds ==
    { id \in ClosedShapeIds \ {built.outerId} :
        ~pointInPolygon(polygonCentroid(Collapsed(id)), Collapsed(built.outerId)) }

\* an output ring back as a point list, its last entry stripped
StripClosure(r) == [i \in 1..(Len(r) - 1) |-> pt(r[i][1], r[i][2])]

VertexSet(points) == { <<points[i].x, points[i].y>> : i \in 1..Len(points) }

\* the output ring r is made of the vertices of shape id
RingIsOf(r, id) == { r[i] : i \in 1..Len(r) } = VertexSet(Collapsed(id))

\* the normalized ring the k-th output ring is built from
NormalizedRing(k) ==
    IF k = 1 THEN ensureCCW(Collapsed(built.outerId))
    ELSE ensureCW(Collapsed(built.holeIds[k - 1]))

C2_DisjointOuterRings ==
    /\ (Ran /\ built.outerId # NULL /\ Cardinality(OutsideIds) >= 1) =>
          /\ built.status = "error"
          /\ built.error = "MultipleDisjointOuterRings"
          /\ built.count = Cardinality(OutsideIds)
          /\ built.rings = <<>>
          /\ outcome = Thrown("MultipleDisjointOuterRings")
          /\ solverCalls = 0
    /\ (Ran /\ Len(project.shapes) = 2
            /\ { project.shapes[1].points, project.shapes[2].points }
                  = { SquarePoints, FarSquarePoints }) =>
          /\ built.error = "MultipleDisjointOuterRings"
          /\ built.count = 1

\* two rings lie outside the outer ring and the count is two
C2_Witness ==
    /\ Ran
    /\ built.error = "MultipleDisjointOuterRings"
    /\ built.count = 2
    /\ Cardinality(OutsideIds) = 2

C4_NoDegenerateRing_AsStated ==
    Ran =>
        /\ built.status = "ok" =>
              \A k \in 1..Len(built.rings) :
                 LET r == StripClosure(built.rings[k])
                 IN /\ Cardinality(VertexSet(r)) >= 3
                    /\ \A i \in 1..Len(r) : r[i] # r[Next1(i, Len(r))]
        /\ (\E id \in ClosedShapeIds : Cardinality(VertexSet(Collapsed(id))) < 3) =>
              /\ outcome.kind = "thrown"
              /\ solverCalls = 0
              /\ (Len(project.shapes) = 1 => outcome.error = "DegenerateRing")

\* C5: the outer ring of a built ring set has signed area >= 0 and every hole
\* ring has signed area <= 0; for any point list P, polygonArea(ensureCCW(P))
\* >= 0 and polygonArea(ensureCW(P)) <= 0.
C5_Orientation ==
    Ran =>
        /\ built.status = "ok" =>
              /\ polygonArea(StripClosure(built.rings[1])) >= 0
              /\ polygonArea(built.outerRing) >= 0
              /\ \A k \in 2..Len(built.rings) :
                    polygonArea(StripClosure(built.rings[k])) <= 0
        /\ \A i \in 1..Len(project.shapes) :
              /\ polygonArea(ensureCCW(project.shapes[i].points)) >= 0
              /\ polygonArea(ensureCW(project.shapes[i].points)) <= 0

\* the outer ring was drawn clockwise and a hole counter-clockwise: both were
\* reversed
C5_Witness ==
    /\ Ran
    /\ built.status = "ok"
    /\ polygonArea(Collapsed(built.outerId)) < 0
    /\ \E k \in 1..Len(built.holeIds) :
          polygonArea(Collapsed(built.holeIds[k])) > 0

\* C6: every output ring repeats its first vertex as its last and has one
\* entry more than the normalized ring; with the last entry stripped it is the
\* normalized ring, vertex by vertex.
C6_ExplicitClosure ==
    (Ran /\ built.status = "ok") =>
        \A k \in 1..Len(built.rings) :
           LET r == built.rings[k]
               n == NormalizedRing(k)
           IN /\ Len(r) = Len(n) + 1
              /\ r[Len(r)] = r[1]
              /\ StripClosure(r) = n
              /\ (k = 1 => n = built.outerRing)

\* a ring set of an outer ring and two holes was built
C6_Witness ==
    /\ Ran
    /\ built.status = "ok"
    /\ Len(built.rings) = 3
    /\ \A k \in 1..3 : Len(built.rings[k]) = Len(NormalizedRing(k)) + 1

BundleReturned == Ran /\ outcome.kind = "returned"

Bundle == outcome.bundle

\* the pairs of vertex indices i < j of the returned skeleton
IndexEdges ==
    { e \in (1..Len(Bundle.skeleton.vertices)) \X (1..Len(Bundle.skeleton.vertices)) :
        e[1] < e[2] }

\* the faces whose boundary cycle has the edge e
FacesWith(e) ==
    { f \in 1..Len(Bundle.skeleton.polygons) :
        LET poly == Bundle.skeleton.polygons[f]
        IN \E k \in 1..Len(poly) :
              { poly[k], poly[Next1(k, Len(poly))] } = { e[1], e[2] } }

EndsOf(e) ==
    << <<vx(Bundle.skeleton.vertices[e[1]]), vy(Bundle.skeleton.vertices[e[1]])>>,
       <<vx(Bundle.skeleton.vertices[e[2]]), vy(Bundle.skeleton.vertices[e[2]])>> >>

\* the edge is shared by two or more faces and its end points differ
SharedEdge(e) == Cardinality(FacesWith(e)) >= 2 /\ EndsOf(e)[1] # EndsOf(e)[2]

\* the Mountain creases of the bundle that run between the end points of e
MountainsAlong(e) ==
    { k \in 1..Len(Bundle.creases) :
        /\ Bundle.creases[k].kind = "M"
        /\ Bundle.creases[k].a = qpt(EndsOf(e)[1][1], EndsOf(e)[1][2], 1)
        /\ Bundle.creases[k].b = qpt(EndsOf(e)[2][1], EndsOf(e)[2][2], 1) }

\* the edges whose end points are those of e (two vertices may coincide)
Coincident(e) == { o \in IndexEdges : EndsOf(o) = EndsOf(e) }

MountainIndices == { k \in 1..Len(Bundle.creases) : Bundle.creases[k].kind = "M" }

ValleyIndices == { k \in 1..Len(Bundle.creases) : Bundle.creases[k].kind = "V" }

\* Math.round(x / 1e-2) of both coordinates
GridPoint(p) == << JSRound(p.x, p.d * QuantTol), JSRound(p.y, p.d * QuantTol) >>

\* the unordered pair of grid points a segment's end points round to
GridPair(c) == { GridPoint(c.a), GridPoint(c.b) }

\* two points less than 1e-2 apart in each coordinate
Near(p, q) ==
    /\ Abs(p.x * q.d - q.x * p.d) < QuantTol * p.d * q.d
    /\ Abs(p.y * q.d - q.y * p.d) < QuantTol * p.d * q.d

\* two segments whose end points correspond, in either order, within 1e-2
NearSegments(c, o) ==
    \/ Near(c.a, o.a) /\ Near(c.b, o.b)
    \/ Near(c.a, o.b) /\ Near(c.b, o.a)

C9_ValleyDedup_AsStated ==
    BundleReturned =>
        LET cands == ValleyCandidates(Bundle.skeleton)
        IN \A i \in 1..Len(cands) : \A j \in (i + 1)..Len(cands) :
              NearSegments(cands[i], cands[j]) =>
                 Cardinality({ k \in ValleyIndices :
                     \/ NearSegments(Bundle.creases[k], cands[i])
                     \/ NearSegments(Bundle.creases[k], cands[j]) }) = 1

\* C9, amended: of two candidate segments whose end points round to the same
\* unordered pair of points of the 1e-2 grid, exactly one Valley crease is
\* emitted.
C9_ValleyDedup ==
    BundleReturned =>
        LET cands == ValleyCandidates(Bundle.skeleton)
        IN \A i \in 1..Len(cands) : \A j \in (i + 1)..Len(cands) :
              GridPair(cands[i]) = GridPair(cands[j]) =>
                 Cardinality({ k \in ValleyIndices :
                     GridPair(Bundle.creases[k]) = GridPair(cands[i]) }) = 1

\* two different candidate segments rounded to the same grid points and one
\* Valley crease stands for both
C9_Witness ==
    /\ BundleReturned
    /\ LET cands == ValleyCandidates(Bundle.skeleton)
       IN \E i \in 1..Len(cands) : \E j \in (i + 1)..Len(cands) :
             /\ cands[i] # cands[j]
             /\ GridPair(cands[i]) = GridPair(cands[j])
             /\ Cardinality({ k \in ValleyIndices :
                   GridPair(Bundle.creases[k]) = GridPair(cands[i]) }) = 1

\* C10, as stated: no two creases of a returned bundle, Mountain or Valley,
\* have the same undirected quantized end-point key.
C10_UniqueCreaseKeys_AsStated ==
    BundleReturned =>
        \A i \in 1..Len(Bundle.creases) : \A j \in (i + 1)..Len(Bundle.creases) :
           GridPair(Bundle.creases[i]) # GridPair(Bundle.creases[j])

\* C10, amended: no two Valley creases of a returned bundle have the same
\* undirected quantized end-point key; a Mountain crease may share its key
\* with a Valley crease or with another Mountain crease.
C10_UniqueCreaseKeys ==
    BundleReturned =>
        \A i \in ValleyIndices : \A j \in ValleyIndices :
           i # j => GridPair(Bundle.creases[i]) # GridPair(Bundle.creases[j])

\* a bundle of Mountain and Valley creases, fewer Valley creases than
\* candidates, and a Mountain crease with the key of a Valley crease
C10_Witness ==
    /\ BundleReturned
    /\ Cardinality(ValleyIndices) >= 2
    /\ Cardinality(ValleyIndices) < Len(ValleyCandidates(Bundle.skeleton))
    /\ \E i \in MountainIndices : \E j \in ValleyIndices :
          GridPair(Bundle.creases[i]) = GridPair(Bundle.creases[j])

\* --------------------------------------------------- the solver service

\* C11: whatever the order of the init() and run() calls, those made while
\* the first initialization is pending included, the module import and
\* SkeletonBuilder.init are each started at most once, every await of load()
\* gives the same outcome, and once the initialization has succeeded every
\* call is given the one ready instance.
C11_InitializedOnce ==
    /\ service.imports <= 1
    /\ service.inits <= 1
    /\ Cardinality(service.observed) <= 1
    /\ service.mod # NULL =>
          /\ service.imports = 1
          /\ service.inits = 1
          /\ service.observed \subseteq
                { [load |-> "ready", api |-> service.mod, error |-> "none"] }
    /\ service.ready => service.mod # NULL

\* the initialization has succeeded while an init() call and a run() call
\* made during it wait to resume
C11_Witness ==
    /\ service.mod # NULL
    /\ service.imports = 1
    /\ \E i \in 1..Len(calls) : calls[i].kind = "init"
    /\ \E i \in 1..Len(calls) : calls[i].kind = "run"

\* ------------------------------------------------------------------ the App

\* the continuation of App.run that is resumed in this step ends in its catch
\* block: the solver did not load, or engine.run threw
RunFailsNow ==
    /\ Resuming
    /\ Head(calls).kind = "appRun"
    /\ calls' = Tail(calls)
    /\ \/ LoadGives(service).load = "failed"
       \/ outcome'.kind = "thrown"

\* C12: a run that fails, whether the solver did not load, the rings could
\* not be built or the solver gave no skeleton, leaves the stored result and
\* the project as they were: of the App only the error text and the status
\* line change, and the error text is set.
C12_FailedRunKeepsResult ==
    [][RunFailsNow =>
          /\ app'.result = app.result
          /\ project' = project
          /\ app' = [app EXCEPT !.error = app'.error, !.status = app'.status]
          /\ app'.error # ""
          /\ app'.status = "failed"]_vars

\* a run has failed at the ring building while a result of an earlier run is
\* stored
C12_Witness ==
    /\ app.status = "failed"
    /\ app.error # ""
    /\ app.result # <<>>
    /\ outcome.kind = "thrown"
    /\ built.status # "ok"

\* ----------------------------------------------------------- the engine run

\* C13: a run either returns a bundle with all of rings, skeleton, creases and
\* cutLine, or fails with one error and returns nothing; the solver is called
\* at most once per run and only after the rings were built, and a solver
\* that returns no skeleton makes the run fail with SkeletonComputationFailed
\* without a second call.
C13_FailFast ==
    Ran =>
        /\ outcome.kind \in {"returned", "thrown"}
        /\ outcome.kind = "returned" =>
              /\ outcome.error = "none"
              /\ DOMAIN outcome.bundle = {"rings", "skeleton", "creases", "cutLine"}
              /\ outcome.bundle.rings = built.rings
              /\ Len(outcome.bundle.rings) >= 1
              /\ solver # <<>>
              /\ outcome.bundle.skeleton = solver[1]
              /\ outcome.bundle # NoBundle
        /\ outcome.kind = "thrown" =>
              /\ outcome.error # "none"
              /\ outcome.bundle = NoBundle
        /\ solverCalls <= 1
        /\ solverCalls = 1 <=> built.status = "ok"
        /\ (built.status = "ok" /\ solver = <<>>) =>
              outcome = Thrown("SkeletonComputationFailed")
        /\ built.status # "ok" => outcome = Thrown(built.error)

\* the rings were built, the solver was called once and returned no skeleton
C13_Witness ==
    /\ Ran
    /\ built.status = "ok"
    /\ solver = <<>>
    /\ solverCalls = 1
    /\ outcome.kind = "thrown"

\* the creases of the bundle at the indices of ks, in their order
CreasesAt(ks) ==
    LET RECURSIVE From(_)
        From(k) ==
            IF k > Len(Bundle.creases) THEN <<>>
            ELSE IF k \in ks THEN <<Bundle.creases[k]>> \o From(k + 1)
            ELSE From(k + 1)
    IN From(1)

\* the first candidate segment that rounds to the grid points of crease k
FirstCandidateOf(k) ==
    LET cands == ValleyCandidates(Bundle.skeleton)
        hits == { i \in 1..Len(cands) : GridPair(cands[i]) = GridPair(Bundle.creases[k]) }
    IN IF hits = {} THEN 0 ELSE CHOOSE i \in hits : \A o \in hits : i <= o

\* C14: in a returned crease list every Mountain crease precedes every Valley
\* crease, the Mountain creases are in the order the interior edges were
\* extracted in, and the Valley creases in the order their candidates were
\* produced in.
C14_MountainsBeforeValleys ==
    BundleReturned =>
        /\ \A i \in MountainIndices : \A j \in ValleyIndices : i < j
        /\ MountainIndices \cup ValleyIndices = 1..Len(Bundle.creases)
        /\ CreasesAt(MountainIndices) = MountainCreases(Bundle.skeleton)
        /\ CreasesAt(ValleyIndices) = buildPerpendicularsFromFaces(Bundle.skeleton)
        /\ \A i \in ValleyIndices : \A j \in ValleyIndices :
              i < j => (0 < FirstCandidateOf(i) /\ FirstCandidateOf(i) < FirstCandidateOf(j))

\* a bundle with two Mountain creases followed by two or more Valley creases
C14_Witness ==
    /\ BundleReturned
    /\ Cardinality(MountainIndices) >= 2
    /\ Cardinality(ValleyIndices) >= 2
    /\ Bundle.creases[1].kind = "M"
    /\ Bundle.creases[Len(Bundle.creases)].kind = "V"

\* the y coordinates of the vertices of the returned skeleton
SkeletonYs == { vy(Bundle.skeleton.vertices[i]) : i \in 1..Len(Bundle.skeleton.vertices) }

LowestY == CHOOSE y \in SkeletonYs : \A o \in SkeletonYs : y <= o

HighestY == CHOOSE y \in SkeletonYs : \A o \in SkeletonYs : y >= o

\* C15: the cut line of a returned bundle is horizontal, lies at the middle
\* (minY + maxY) / 2 of the bounding box of all skeleton vertices, starts at
\* x = 0 and ends at x = the viewport width.
C15_CutLine ==
    (BundleReturned /\ SkeletonYs # {}) =>
        LET a == Bundle.cutLine.a
            b == Bundle.cutLine.b
        IN /\ a.d > 0 /\ b.d > 0
           /\ a.y * b.d = b.y * a.d
           /\ 2 * a.y = (LowestY + HighestY) * a.d
           /\ 2 * b.y = (LowestY + HighestY) * b.d
           /\ a.x = 0
           /\ b.x = runCall.w * b.d
           /\ runCall.w = viewport.w

\* the skeleton's vertices are at different heights, the middle is the height
\* of none of them, and the viewport is not of the default width
C15_Witness ==
    /\ BundleReturned
    /\ SkeletonYs # {}
    /\ LowestY < HighestY
    /\ \A y \in SkeletonYs : 2 * y # LowestY + HighestY
    /\ viewport.w # DefaultViewportW
    /\ Bundle.cutLine.b.x = viewport.w * Bundle.cutLine.b.d

\* this step resumes App.run after a successful engine.run and stores its bundle
RunSucceedsNow ==
    /\ Resuming
    /\ Head(calls).kind = "appRun"
    /\ calls' = Tail(calls)
    /\ outcome'.kind = "returned"
    /\ app'.result = <<outcome'.bundle>>

\* this step is the clear-result button's: the result is dropped, nothing else
ClearsNow ==
    /\ app' = [app EXCEPT !.result = <<>>]
    /\ UNCHANGED <<project, selectedShapeId, calls, service, outcome>>

\* this step replaces the project by a loaded or imported one
SetsProjectNow ==
    /\ app'.execs = app.execs + 1
    /\ app'.undoStack # <<>>
    /\ app'.undoStack[Len(app'.undoStack)].label = "set-project"
    /\ app'.status \in {"loaded", "imported"}
    /\ selectedShapeId' = NULL

\* C16, as stated: the stored result changes only in a successful run, which
\* replaces it, and on the clear-result button, which discards it.
C16_ResultStable_AsStated ==
    [][app'.result # app.result => (RunSucceedsNow \/ ClearsNow)]_vars

\* C16, amended: the stored result is created by a successful run only; once
\* stored it changes only by being replaced by the bundle of the next
\* successful run or by being discarded, on the clear-result button or when a
\* project is loaded from the local save or imported from a file (which
\* always discards it); editing, undo and redo, export, saving and a failed
\* run leave it as it is.
C16_ResultStable ==
    [][/\ app'.result # app.result =>
             \/ RunSucceedsNow
             \/ ClearsNow
             \/ SetsProjectNow /\ app'.result = <<>>
       /\ SetsProjectNow => app'.result = <<>>
       /\ (app.result = <<>> /\ app'.result # <<>>) => RunSucceedsNow]_vars

\* a run has stored a result and a later import replaced the project and
\* discarded it, with an edit still on the undo stack below the import
C16_Witness ==
    /\ outcome.kind = "returned"
    /\ app.result = <<>>
    /\ app.status = "imported"
    /\ Len(app.undoStack) = 2
    /\ app.undoStack[1].label = "add-shape"
    /\ app.undoStack[2].label = "set-project"

\* ------------------------------------------------------- the ring errors

\* the closed shape has fewer than 3 points once consecutive duplicates are
\* collapsed; it has 3 or more and fails the simplicity check
DegenerateShape(id) == Len(Collapsed(id)) < 3

NotSimpleShape(id) == Len(Collapsed(id)) >= 3 /\ ~isSimplePolygon(Collapsed(id))

OffendingIds == { id \in ClosedShapeIds : DegenerateShape(id) \/ NotSimpleShape(id) }

RingErrorOf(id) ==
    IF DegenerateShape(id) THEN "DegenerateRing" ELSE "SelfIntersectingRing"

\* the offending shape that comes first in the scene
FirstOffender ==
    CHOOSE id \in OffendingIds :
        \A o \in OffendingIds : ShapeIndexOf(id) <= ShapeIndexOf(o)

\* the selection is a shape of the scene that is not closed
SelectedIsOpen == runCall.selectedId \in OpenShapeIds

EdgeOf(P, i) == << P[i], P[Next1(i, Len(P))] >>

\* the closed segments e and f have a point in common: neither lies strictly
\* on one side of the other's line, and their bounding boxes overlap
SegmentsMeet(e, f) ==
    /\ orient(f[1], f[2], e[1]) * orient(f[1], f[2], e[2]) <= 0
    /\ orient(e[1], e[2], f[1]) * orient(e[1], e[2], f[2]) <= 0
    /\ Max2(e[1].x, e[2].x) >= Min2(f[1].x, f[2].x)
    /\ Max2(f[1].x, f[2].x) >= Min2(e[1].x, e[2].x)
    /\ Max2(e[1].y, e[2].y) >= Min2(f[1].y, f[2].y)
    /\ Max2(f[1].y, f[2].y) >= Min2(e[1].y, e[2].y)

\* edges i and j of an n-gon are different and share no vertex index
NonAdjacent(i, j, n) == i # j /\ Next1(i, n) # j /\ Next1(j, n) # i

\* the vertices of P are distinct, all lie on or to one side of every edge's
\* line, the same side for all edges, and P encloses an area
ConvexPolygon(P) ==
    /\ Len(P) >= 3
    /\ \A i \in 1..Len(P) : \A j \in 1..Len(P) : i # j => P[i] # P[j]
    /\ \E i \in 1..Len(P) : \E k \in 1..Len(P) :
          orient(EdgeOf(P, i)[1], EdgeOf(P, i)[2], P[k]) # 0
    /\ \/ \A i \in 1..Len(P) : \A k \in 1..Len(P) :
             orient(EdgeOf(P, i)[1], EdgeOf(P, i)[2], P[k]) >= 0
       \/ \A i \in 1..Len(P) : \A k \in 1..Len(P) :
             orient(EdgeOf(P, i)[1], EdgeOf(P, i)[2], P[k]) <= 0

\* a quadrilateral two opposite edges of which cross at an inner point of both
Bowtie(P) ==
    /\ Len(P) = 4
    /\ \E i \in 1..2 :
          LET e == EdgeOf(P, i)
              f == EdgeOf(P, i + 2)
          IN /\ orient(e[1], e[2], f[1]) * orient(e[1], e[2], f[2]) < 0
             /\ orient(f[1], f[2], e[1]) * orient(f[1], f[2], e[2]) < 0

\* C18: isSimplePolygon returns true exactly when the point list has 3 or more
\* points and no two non-adjacent edges have a point in common, crossing or
\* touching; it returns true for every convex polygon in either winding and
\* false for a bowtie quadrilateral.
C18_IsSimplePolygon ==
    probe.fn = "isSimplePolygon" =>
        LET P == probe.points
            n == Len(P)
        IN /\ probe.simple <=>
                 /\ n >= 3
                 /\ \A i \in 1..n : \A j \in 1..n :
                       NonAdjacent(i, j, n) => ~SegmentsMeet(EdgeOf(P, i), EdgeOf(P, j))
           /\ ConvexPolygon(P) => (probe.simple /\ probe.simpleReversed)
           /\ Bowtie(P) => (~probe.simple /\ ~probe.simpleReversed)

\* a quadrilateral that is not simple although no two of its edges cross at
\* an inner point: an edge ends on another edge
C18_Witness ==
    /\ probe.fn = "isSimplePolygon"
    /\ Len(probe.points) = 4
    /\ ~probe.simple
    /\ ~Bowtie(probe.points)
    /\ \A i \in 1..4 : \A j \in 1..4 : i # j => probe.points[i] # probe.points[j]

\* q lies strictly outside the bounding box of the points of P
OutsideBBox(q, P) ==
    \/ \A i \in 1..Len(P) : q.x < P[i].x * q.d
    \/ \A i \in 1..Len(P) : q.x > P[i].x * q.d
    \/ \A i \in 1..Len(P) : q.y < P[i].y * q.d
    \/ \A i \in 1..Len(P) : q.y > P[i].y * q.d

\* C19: pointInPolygon returns false for every point strictly outside the
\* polygon's bounding box, and true for the centroid of every convex polygon,
\* whatever vertex the list starts at and whatever its winding.
C19_PointInPolygon ==
    probe.fn = "pointInPolygon" =>
        /\ \A q \in QueryPoints : OutsideBBox(q, probe.points) => q \notin probe.inside
        /\ ConvexPolygon(probe.points) =>
              /\ probe.centroidInside
              /\ probe.centroidInsideReordered

\* a clockwise convex quadrilateral: its centroid is inside, some of the
\* points asked about are inside and some lie outside its bounding box
C19_Witness ==
    /\ probe.fn = "pointInPolygon"
    /\ Len(probe.points) = 4
    /\ ConvexPolygon(probe.points)
    /\ polygonArea(probe.points) < 0
    /\ probe.centroidInside
    /\ probe.inside # {}
    /\ \E q \in QueryPoints : OutsideBBox(q, probe.points)

\* ------------------------------------------------------------ the edge keys

\* the integer nearest to x / q, the upper one of two equally near
NearestStep(x, q) ==
    CHOOSE n \in (0 - Abs(x) - 1)..(Abs(x) + 1) :
        (2 * n - 1) * q <= 2 * x /\ 2 * x < (2 * n + 1) * q

\* the grid point a point of integer coordinates quantizes to
GridOf(p, q) == << NearestStep(p.x, q), NearestStep(p.y, q) >>

\* C20: keyForUndirectedEdge(a, b, q) = keyForUndirectedEdge(b, a, q), and
\* the segments a-b and c-d get the same key exactly when their end points
\* quantize to the same unordered pair of grid points.
C20_UndirectedKey ==
    probe.fn = "keyForUndirectedEdge" =>
        /\ probe.keyAB = probe.keyBA
        /\ probe.keyAB = probe.keyCD <=>
              \/ /\ GridOf(probe.a, probe.q) = GridOf(probe.c, probe.q)
                 /\ GridOf(probe.b, probe.q) = GridOf(probe.d, probe.q)
              \/ /\ GridOf(probe.a, probe.q) = GridOf(probe.d, probe.q)
                 /\ GridOf(probe.b, probe.q) = GridOf(probe.c, probe.q)

\* two segments of different end points, given in opposite directions, that
\* quantize to the same two different grid points and get the same key
C20_Witness ==
    /\ probe.fn = "keyForUndirectedEdge"
    /\ probe.keyAB = probe.keyCD
    /\ {probe.a, probe.b} \cap {probe.c, probe.d} = {}
    /\ GridOf(probe.a, probe.q) = GridOf(probe.d, probe.q)
    /\ GridOf(probe.a, probe.q) # GridOf(probe.b, probe.q)
    /\ probe.a.x < 0

\* ------------------------------------------------- the segment intersection

\* p lies on the closed segment from a to b: it is a + t (b - a) for a t in
\* [0, 1], that is p - a is parallel to b - a and 0 <= (p-a).(b-a) <= |b-a|^2,
\* and p is a when the segment is the single point a
LiesOn(p, a, b) ==
    /\ a = b => p = a
    /\ cross(sub(p, a), sub(b, a)) = 0
    /\ 0 <= dot(sub(p, a), sub(b, a))
    /\ dot(sub(p, a), sub(b, a)) <= len2(sub(b, a))

\* the segments a-b and c-d cross at a point inside both: the lines are not
\* parallel and the parameters of the common point are strictly in (0, 1)
CrossProperly(a, b, c, d) ==
    LET rxs == cross(sub(b, a), sub(d, c))
        tn == cross(sub(c, a), sub(d, c))
        un == cross(sub(c, a), sub(b, a))
    IN /\ rxs # 0
       /\ 0 < tn * rxs /\ Abs(tn) < Abs(rxs)
       /\ 0 < un * rxs /\ Abs(un) < Abs(rxs)

\* an end point of one of the two segments lies on the other
Touches(a, b, c, d) ==
    LiesOn(c, a, b) \/ LiesOn(d, a, b) \/ LiesOn(a, c, d) \/ LiesOn(b, c, d)

\* C21: segmentsIntersect reports an intersection for a proper crossing and
\* for touching or collinear overlap (an end point of one segment on the
\* other), and reports none only when the closed segments share no point.
C21_SegmentsIntersect ==
    probe.fn = "segmentsIntersect" =>
        /\ CrossProperly(probe.a, probe.b, probe.c, probe.d) => probe.hit
        /\ Touches(probe.a, probe.b, probe.c, probe.d) => probe.hit
        /\ probe.hit <=> SegmentsMeet(<<probe.a, probe.b>>, <<probe.c, probe.d>>)
        /\ probe.hit <=> \/ CrossProperly(probe.a, probe.b, probe.c, probe.d)
                         \/ Touches(probe.a, probe.b, probe.c, probe.d)

\* two collinear segments that overlap in more than a point: c is an inner
\* point of a-b, and b lies on c-d
C21_Witness ==
    /\ probe.fn = "segmentsIntersect"
    /\ probe.hit
    /\ Cardinality({probe.a, probe.b, probe.c}) = 3
    /\ probe.c # probe.d
    /\ ~CrossProperly(probe.a, probe.b, probe.c, probe.d)
    /\ orient(probe.a, probe.b, probe.c) = 0
    /\ orient(probe.a, probe.b, probe.d) = 0
    /\ LiesOn(probe.c, probe.a, probe.b)
    /\ LiesOn(probe.b, probe.c, probe.d)

\* --------------------------------------------------- the Valley extraction

\* the (face, position in the face) pairs of the returned skeleton
FaceVertexPairs ==
    { fk \in (1..Len(Bundle.skeleton.polygons)) \X (1..Len(Bundle.skeleton.vertices)) :
        fk[2] <= Len(Bundle.skeleton.polygons[fk[1]]) }

VertexAt(fk) == Bundle.skeleton.vertices[Bundle.skeleton.polygons[fk[1]][fk[2]]]

\* the pair's vertex is an internal one: its collapse time is above EPS_TIME
InternalPair(fk) == vt(VertexAt(fk)) > 0

\* the number of boundary-time vertices of face f
BoundaryCount(f) ==
    Cardinality({ k \in 1..Len(Bundle.skeleton.polygons[f]) : vt(VertexAt(<<f, k>>)) = 0 })

\* the rational point q lies on the closed segment between the integer points
\* a and b
OnFaceSegment(q, a, b) ==
    /\ (q.x - a.x * q.d) * (b.y - a.y) = (q.y - a.y * q.d) * (b.x - a.x)
    /\ Min2(a.x, b.x) * q.d <= q.x /\ q.x <= Max2(a.x, b.x) * q.d
    /\ Min2(a.y, b.y) * q.d <= q.y /\ q.y <= Max2(a.y, b.y) * q.d

\* the Valley crease c can have come from the pair fk: the vertex is internal,
\* c starts at it, the face has 2 or more boundary-time vertices, and c ends
\* at another point, on the face's boundary
Justifies(fk, c) ==
    LET poly == Bundle.skeleton.polygons[fk[1]]
        v == VertexAt(fk)
    IN /\ InternalPair(fk)
       /\ BoundaryCount(fk[1]) >= 2
       /\ c.a = asQ(pt(vx(v), vy(v)))
       /\ c.b # c.a
       /\ \E i \in 1..Len(poly) :
             LET v0 == VertexAt(<<fk[1], i>>)
                 v1 == VertexAt(<<fk[1], Next1(i, Len(poly))>>)
             IN OnFaceSegment(c.b, pt(vx(v0), vy(v0)), pt(vx(v1), vy(v1)))

\* C22: Valley extraction on a well-formed skeleton never fails, and it emits
\* at most one Valley crease per (face, internal vertex) pair: every Valley
\* crease starts at an internal vertex of a face with 2 or more boundary-time
\* vertices and ends at another point of that face's boundary, and the Valley
\* creases starting at a point are no more than the pairs that justify them;
\* a face with fewer than 2 boundary-time vertices and a vertex of time
\* <= EPS_TIME yield no candidate.
C22_ValleyExtraction ==
    /\ (Ran /\ built.status = "ok" /\ solver # <<>>) => outcome.kind = "returned"
    /\ BundleReturned =>
          /\ \A k \in ValleyIndices :
                /\ \E fk \in FaceVertexPairs : Justifies(fk, Bundle.creases[k])
                /\ Cardinality({ j \in ValleyIndices :
                                   Bundle.creases[j].a = Bundle.creases[k].a })
                      <= Cardinality({ fk \in FaceVertexPairs :
                                   \E j \in ValleyIndices :
                                      /\ Bundle.creases[j].a = Bundle.creases[k].a
                                      /\ Justifies(fk, Bundle.creases[j]) })
          /\ Cardinality(ValleyIndices)
                <= Cardinality({ fk \in FaceVertexPairs : InternalPair(fk) })
          /\ \A f \in 1..Len(Bundle.skeleton.polygons) :
                BoundaryCount(f) < 2 =>
                   FaceCandidates(Bundle.skeleton.vertices,
                                  Bundle.skeleton.polygons[f]) = <<>>

\* a returned bundle with a Valley crease, a face with an internal vertex and
\* fewer than 2 boundary-time vertices, and more pairs of a face and an
\* internal vertex than Valley candidates: a vertex was skipped
C22_Witness ==
    /\ BundleReturned
    /\ ValleyIndices # {}
    /\ \E fk \in FaceVertexPairs : InternalPair(fk) /\ BoundaryCount(fk[1]) < 2
    /\ \E fk \in FaceVertexPairs :
          /\ InternalPair(fk)
          /\ BoundaryCount(fk[1]) >= 2
          /\ Len(FaceCandidates(Bundle.skeleton.vertices,
                                Bundle.skeleton.polygons[fk[1]]))
                < Cardinality({ k \in 1..Len(Bundle.skeleton.polygons[fk[1]]) :
                                  InternalPair(<<fk[1], k>>) })

\* ------------------------------------------------ a failed initialization

\* the initialization has failed
InitializationFailed == service.initPromise = "rejected"

\* C23: once the solver's initialization has failed it is not attempted
\* again: the import and SkeletonBuilder.init are not started anew, the
\* failure stays the one it was, every call that resumes, init() or run(), is
\* given that failure, no run reaches the ring builder or the solver, and
\* ready stays false; and ready implies that the module was loaded.
C23_FailureIsFinal ==
    /\ [](InitializationFailed =>
             /\ service.error # "none"
             /\ service.mod = NULL
             /\ ~service.ready
             /\ service.imports = 1
             /\ service.inits <= 1
             /\ service.observed \subseteq
                   { [load |-> "failed", api |-> NULL, error |-> service.error] }
             /\ ~runCall.called
             /\ solverCalls = 0
             /\ outcome = NotRun)
    /\ [](service.ready => (service.mod # NULL /\ service.initPromise = "fulfilled"))
    /\ [][InitializationFailed =>
             /\ service'.initPromise = "rejected"
             /\ service'.error = service.error
             /\ service'.imports = service.imports
             /\ service'.inits = service.inits
             /\ (calls' # calls /\ Len(calls') < Len(calls)) =>
                   [load |-> "failed", api |-> NULL, error |-> service.error]
                      \in service'.observed]_vars

\* SkeletonBuilder.init has failed, a call has been given the failure, and a
\* run() call is next to resume
C23_Witness ==
    /\ InitializationFailed
    /\ service.error = "SkeletonInitFailed"
    /\ service.observed # {}
    /\ calls # <<>>
    /\ Head(calls).kind = "run"

\* ---------------------------------------------------------------- claim C24
\* the commands the editor can hand to history.exec in the state e: the add
\* of a new shape, the removal of a shape of the project, the update of one
\* from what it is to a moved copy, and the load of a file that has shapes
EditorCommands(e) ==
    LET shapes == { e.project.shapes[i] : i \in 1..Len(e.project.shapes) }
    IN { AddShapeCommand(ShapeToJSON(AutosavedShape)) }
       \cup { RemoveShapeCommand(ShapeToJSON(sh)) : sh \in shapes }
       \cup { UpdateShapeCommand(sh.id, ShapeToJSON(sh), ShapeToJSON(translate(sh, 5, 5))) :
                sh \in shapes }
       \cup { SetProjectCommand(ProjectToJSON(e.project), f[1]) :
                f \in { g \in EditorFiles : g # <<>> /\ "shapes" \in DOMAIN g[1] } }

\* C24: the UndoManager keeps a strict stack discipline.  exec applies the
\* command, pushes it on the undo stack and empties the redo stack; undo and
\* redo each move exactly one command, the last of its stack, to the end of
\* the other stack, so that the two lengths add up to what they were and redo
\* takes the commands back in the reverse order of their undo; undo and redo
\* on an empty stack change nothing and do not fire onChange.
C24_StackDiscipline ==
    LET e == Editor
        undos == e.app.undoStack
        redos == e.app.redoStack
        u == undo(e)
        r == redo(e)
    IN /\ \A cmd \in EditorCommands(e) :
             LET x == exec(e, cmd)
             IN /\ x.project = CommandDo(cmd, e.project)
                /\ x.app.undoStack = Append(undos, cmd)
                /\ x.app.redoStack = <<>>
                /\ x.app.autosave = <<ProjectToJSON(x.project)>>
       /\ IF undos = <<>> THEN u = e
          ELSE /\ u.project = CommandUndo(undos[Len(undos)], e.project)
               /\ Append(u.app.undoStack, undos[Len(undos)]) = undos
               /\ u.app.redoStack = Append(redos, undos[Len(undos)])
               /\ Len(u.app.undoStack) + Len(u.app.redoStack) = Len(undos) + Len(redos)
               /\ u.app.autosave = <<ProjectToJSON(u.project)>>
               /\ redo(u).app.undoStack = undos
               /\ redo(u).app.redoStack = redos
       /\ IF redos = <<>> THEN r = e
          ELSE /\ r.project = CommandDo(redos[Len(redos)], e.project)
               /\ Append(r.app.redoStack, redos[Len(redos)]) = redos
               /\ r.app.undoStack = Append(undos, redos[Len(redos)])
               /\ Len(r.app.undoStack) + Len(r.app.redoStack) = Len(undos) + Len(redos)
               /\ r.app.autosave = <<ProjectToJSON(r.project)>>

\* after an undo each stack holds a command, in the middle of a drag that the
\* autosave has not seen
C24_Witness ==
    /\ Len(app.undoStack) = 1
    /\ Len(app.redoStack) = 1
    /\ app.selectState.mode # "idle"
    /\ app.autosave # <<ProjectToJSON(project)>>

\* ---------------------------------------------------------------- claim C25
\* the commands of EditorCommands with the add of a shape under a new id, as
\* the tools make it
FreshCommands(e) ==
    { IF cmd.label = "add-shape"
      THEN AddShapeCommand([cmd.shapeJSON EXCEPT !.id = e.app.execs + 1])
      ELSE cmd : cmd \in EditorCommands(e) }

\* C25: exec(cmd) immediately followed by undo() restores the shape list of
\* the project exactly as it was before the exec, the same ids in the same
\* order with the same points and closed flags, for AddShapeCommand,
\* RemoveShapeCommand, UpdateShapeCommand and SetProjectCommand.
C25_ExecUndoRestores ==
    \A cmd \in FreshCommands(Editor) :
        undo(exec(Editor, cmd)).project.shapes = project.shapes

\* ---------------------------------------------------------------- claim C26
\* the editor after every command of the undo stack has been undone
RECURSIVE UndoAll(_)
UndoAll(e) == IF e.app.undoStack = <<>> THEN e ELSE UndoAll(undo(e))

\* C26: under any interleaving of pointer events, keyboard shortcuts and tool
\* switches every change to the shapes is recorded in the history: whenever
\* no pointer drag is in progress, undoing every command of the undo stack
\* returns the shapes to what they were when the history was last empty.
C26_HistoryRecordsAll ==
    (app.selectState.mode = "idle" /\ ~app.rectState.dragging)
        => UndoAll(Editor).project.shapes = probe.base

\* ---------------------------------------------------------------- claim C27
\* the import of the file fails: its text does not parse, or what it parses
\* to is no valid project
ImportFailsOn(parsed) == parsed = <<>> \/ "shapes" \notin DOMAIN parsed[1]

\* C27: when loading a saved project or importing a file fails, the current
\* project (shapes and settings), the selection, the stored result and both
\* history stacks are left unchanged.
C27_FailedLoadChangesNothing ==
    \A parsed \in EditorFiles :
        ImportFailsOn(parsed) =>
            LET r == importProjectFromFile(Editor, parsed)
            IN /\ r.project = project
               /\ r.selectedShapeId = selectedShapeId
               /\ r.app.result = app.result
               /\ r.app.undoStack = app.undoStack
               /\ r.app.redoStack = app.redoStack

\* ---------------------------------------------------------------- claim C28
\* C28: after any sequence of tool actions, commands, undo, redo and project
\* loads, every shape of the project has the type 'polygon' exactly when it
\* is closed.
C28_TypeMatchesClosed ==
    \A i \in 1..Len(project.shapes) :
        (project.shapes[i].type = "polygon") <=> project.shapes[i].closed

\* a file whose shape says 'polyline' and closed has been imported, and the
\* shape made from it has then been dragged by the select tool
C28_Witness ==
    /\ app.undoStack # <<>>
    /\ app.undoStack[Len(app.undoStack)].label = "update-shape"
    /\ app.undoStack[Len(app.undoStack)].beforeJSON.id = 9
    /\ \E i \in 1..Len(project.shapes) :
          project.shapes[i].id = 9 /\ project.shapes[i].closed

\* ---------------------------------------------------------------- claim C29
\* the shape the select tool is dragging, <<>> when the project has it no more
DraggedShape == getShapeById(project, app.selectState.shapeId)

\* the press: a drag that starts keeps the shape as it is at the press and
\* touches neither the project nor the history
PressTakesSnapshot ==
    \A p \in PointerPoints : \A vIdx \in {0} \cup Handles(Editor) :
        LET r == selectPointerDown(Editor, p, vIdx)
        IN r.app.selectState.mode # "idle" =>
              /\ getShapeById(project, r.app.selectState.shapeId) # <<>>
              /\ r.app.selectState.before =
                    ShapeToJSON(getShapeById(project, r.app.selectState.shapeId)[1])
              /\ r.project = project
              /\ r.app.undoStack = app.undoStack
              /\ r.app.redoStack = app.redoStack

\* the release of a drag
ReleaseRecordsOnce ==
    app.selectState.mode # "idle" =>
        LET r == selectPointerUp(Editor)
            state == app.selectState
        IN /\ r.app.selectState.mode = "idle"
           /\ IF DraggedShape # <<>> /\ ShapeToJSON(DraggedShape[1]) # state.before
              THEN /\ r.app.undoStack =
                         Append(app.undoStack,
                                UpdateShapeCommand(state.shapeId, state.before,
                                                   ShapeToJSON(DraggedShape[1])))
                   /\ r.app.redoStack = <<>>
                   /\ r.project.shapes = project.shapes
              ELSE /\ r.app.undoStack = app.undoStack
                   /\ r.app.redoStack = app.redoStack
                   /\ r.project = project

\* C29: a press and release of the select tool that leaves the shape
\* unchanged adds no command and does not clear the redo stack; a drag that
\* changes the shape adds exactly one UpdateShapeCommand whose before and
\* after are the shape at the press and at the release; in both cases the
\* tool is idle again after the pointer-up.
C29_SelectDrag == PressTakesSnapshot /\ ReleaseRecordsOnce

\* a shape is being dragged away from where it was pressed while a command
\* waits on the redo stack
C29_Witness ==
    /\ app.currentTool = "select"
    /\ app.selectState.mode = "dragShape"
    /\ DraggedShape # <<>>
    /\ ShapeToJSON(DraggedShape[1]) # app.selectState.before
    /\ app.redoStack # <<>>

\* ---------------------------------------------------------------- claim C30
\* a call of play is accepted: the card is not animating
Accepted == timeline'.plays > timeline.plays /\ timeline.animating # "1"

\* a call of play is made while the card is animating
Ignored == timeline'.plays > timeline.plays /\ timeline.animating = "1"

====
